---- MODULE Spec2Model ----
(***************************************************************************)
(* The transaction set core of rpm (lib/rpmts.cc): reference counting,     *)
(* the transaction (lock) protocol, the database binding, the members      *)
(* (order, pool, removed packages) and the element iterator.               *)
(*                                                                         *)
(* Every handler of the source is an operator on a record `s` holding the  *)
(* fields of the set and of the process; an action applies one handler to  *)
(* the current state.  Handlers that call other handlers (rpmtxnEnd calls  *)
(* rpmtsFree, rpmtsFree calls rpmtsEmpty, ...) are composed the same way.  *)
(* The calls a handler makes into code outside lib/rpmts.cc (database,     *)
(* keystore, change callback) are recorded in `trace`, each with the       *)
(* transaction state at the moment of the call.                            *)
(***************************************************************************)
EXTENDS Integers, Sequences, FiniteSets, TLC

\* ------------------------------------------------------------------ bounds
MaxCallerRefs == 2      \* references the caller holds at once
MaxTxn == 2             \* transaction handles the caller holds at once
MaxIter == 1            \* iterators the caller holds at once
MaxOrder == 2           \* elements in order
MaxPool == 2            \* pools created over the life of a set
MaxGetTime == 3         \* calls of rpmtsGetTime on a set
MaxKeyLen == 5          \* characters of an iterator key
MaxKeys == 2            \* entries of the digest table of a package
MaxSize == 3            \* bytes of a file of a package
MaxPsm == 2             \* runs of psm_post that succeed
MaxScriptlet == 1       \* runs of scriptlet_post that succeed
MaxClock == 2           \* milliseconds the monotonic clock reaches

\* --------------------------------------------------------------- constants
NULL == "NULL"

\* rpmtxnFlags, as bit sets
RPMTXN_READ == {"READ"}
RPMTXN_WRITE == {"WRITE"}
TxnFlags == {RPMTXN_READ, RPMTXN_WRITE}

\* rpmlock modes
RPMLOCK_READ == {"READ"}
RPMLOCK_WRITE == {"WRITE"}

\* open(2) flags the database is opened with
O_RDONLY == "O_RDONLY"
O_RDWR_CREAT == "O_RDWR|O_CREAT"
DbModes == {O_RDONLY, O_RDWR_CREAT}

\* rpmVSFlags: the signature bits of RPMVSF_MASK_NOSIGNATURES, and NOHDRCHK
RPMVSF_MASK_NOSIGNATURES == {"NODSAHEADER", "NORSAHEADER", "NODSA", "NORSA"}
RPMVSF_NOHDRCHK == {"NOHDRCHK"}
VSFlagValues == {{}, RPMVSF_MASK_NOSIGNATURES, {"NORSA"}}

\* rpmtransFlags
RPMTRANS_FLAG_TEST == {"TEST"}

\* rpmElementType, as bit sets
TR_ADDED == {"TR_ADDED"}
TR_REMOVED == {"TR_REMOVED"}
ElementTypes == {TR_ADDED, TR_REMOVED}
TypeMasks == {{}, TR_ADDED, TR_REMOVED, TR_ADDED \cup TR_REMOVED}

RPMTS_EVENT_ADD == "RPMTS_EVENT_ADD"
RPMTS_EVENT_DEL == "RPMTS_EVENT_DEL"

\* public key packets: a fingerprint and the material (subkeys, signatures)
Packets == {[fp |-> 1, mat |-> {1}], [fp |-> 1, mat |-> {1, 2}]}

\* The index tags and the keys of rpmtsInitIterator: a key is null or a
\* string, a string being the sequence of its characters.
RPMDBI_PACKAGES == "RPMDBI_PACKAGES"
RPMDBI_LABEL == "RPMDBI_LABEL"
RPMDBI_NAME == "RPMDBI_NAME"

NullKey == [null |-> TRUE, str |-> <<>>]

StrKey(cs) == [null |-> FALSE, str |-> cs]

\* the characters of a key, and the keys the caller looks up
KeyChars == {"n", "1", ":", "(", ")"}

Keys == {NullKey} \cup
        {StrKey(cs) : cs \in UNION {[1..k -> KeyChars] : k \in 0..MaxKeyLen}}

VARIABLES
    alive,          \* the set exists (rpmtsCreate done, delete ts not)
    nrefs,          \* ts->nrefs
    rdb,            \* ts->rdb: NULL, or the mode the handle was opened with
    dbmode,         \* ts->dbmode
    keyring,        \* ts->keyring: <<>> (null) or <<the set of keys>>
    keystore,       \* ts->keystore: NULL, "fs" or "rpmdb"
    vsflags,        \* ts->vsflags
    transFlags,     \* ts->transFlags
    rootDir,        \* ts->rootDir: NULL or a path
    lockPath,       \* ts->lockPath: NULL or the root it was generated from
    lock,           \* ts->lock: the rpmlock object
    change,         \* ts->change: a change callback is installed
    order,          \* ts->members->order: the element types, by index
    removedPackages,\* ts->members->removedPackages
    pool,           \* ts->members->pool: 0 (null) or the pool's identity
    txns,           \* the live rpmtxn handles, innermost last
    iters,          \* the live rpmtsi iterators
    blocked,        \* rpmsqBlock's nesting depth of this thread
    stored,         \* the keys the keystore holds on disk
    krtype,         \* the value of the macro _keyring
    overrideTime,   \* ts->overrideTime: -1 when the wall clock is used
    tid,            \* ts->tid
    epoch,          \* SOURCE_DATE_EPOCH as rpmtsCreate found it
    timeSteps,      \* the steps of the calls of rpmtsGetTime so far
    lookup,         \* the tag and the key the caller iterates with
    callerRefs,     \* references the caller owns (create + link - free)
    pools,          \* pools created so far
    destroyed,      \* times the destruction body of rpmtsFree has run
    reflink,        \* the data of the reflink plugin: NULL when not loaded
    measure,        \* the data of the measure plugin: NULL when not loaded
    trace,          \* calls out of rpmts.cc made by the last operation
    last            \* the last operation: name, arguments, result

vars == <<alive, nrefs, rdb, dbmode, keyring, keystore, vsflags, transFlags,
          rootDir, lockPath, lock, change, order, removedPackages, pool, txns,
          iters, blocked, stored, krtype, overrideTime, tid, epoch,
          timeSteps, lookup, callerRefs, pools, destroyed, reflink, measure,
          trace, last>>

\* The current state as one record, the argument of every handler.
S == [alive |-> alive, nrefs |-> nrefs, rdb |-> rdb, dbmode |-> dbmode,
      keyring |-> keyring, keystore |-> keystore, vsflags |-> vsflags,
      transFlags |-> transFlags, rootDir |-> rootDir,
      lockPath |-> lockPath, lock |-> lock,
      change |-> change, order |-> order,
      removedPackages |-> removedPackages, pool |-> pool, txns |-> txns,
      iters |-> iters, blocked |-> blocked, stored |-> stored,
      krtype |-> krtype, overrideTime |-> overrideTime, tid |-> tid,
      epoch |-> epoch, timeSteps |-> timeSteps,
      callerRefs |-> callerRefs, pools |-> pools, destroyed |-> destroyed,
      trace |-> <<>>, ret |-> 0]

\* The state an operation leaves behind; `l` describes the operation.
Apply(r, l) ==
    /\ alive' = r.alive
    /\ nrefs' = r.nrefs
    /\ rdb' = r.rdb
    /\ dbmode' = r.dbmode
    /\ keyring' = r.keyring
    /\ keystore' = r.keystore
    /\ vsflags' = r.vsflags
    /\ transFlags' = r.transFlags
    /\ rootDir' = r.rootDir
    /\ lockPath' = r.lockPath
    /\ lock' = r.lock
    /\ change' = r.change
    /\ order' = r.order
    /\ removedPackages' = r.removedPackages
    /\ pool' = r.pool
    /\ txns' = r.txns
    /\ iters' = r.iters
    /\ blocked' = r.blocked
    /\ stored' = r.stored
    /\ krtype' = r.krtype
    /\ overrideTime' = r.overrideTime
    /\ tid' = r.tid
    /\ epoch' = r.epoch
    /\ timeSteps' = r.timeSteps
    /\ lookup' = lookup
    /\ reflink' = reflink
    /\ measure' = measure
    /\ callerRefs' = r.callerRefs
    /\ pools' = r.pools
    /\ destroyed' = r.destroyed
    /\ trace' = r.trace
    /\ last' = l

\* The outcomes of the calls an operation makes into the system and into the
\* libraries below rpmts.cc: each is an input of the operation.
Env0 == [lockNew |-> "rw", lockAcquire |-> TRUE, dbOpen |-> TRUE,
         dbOk |-> TRUE, lint |-> TRUE, parse |-> TRUE, merge |-> TRUE,
         modify |-> TRUE, store |-> TRUE, deref |-> TRUE]

\* A call out of rpmts.cc, with the transaction state it is made in:
\* `h` is the flags of the handle passed to it, {} when it takes none.
Call(s, name, arg, h) ==
    [s EXCEPT !.trace = Append(@, [call |-> name, arg |-> arg, handle |-> h,
                                   txns |-> s.txns, blocked |-> s.blocked,
                                   held |-> s.lock.held])]

Ret(s, v) == [s EXCEPT !.ret = v]

RemoveAt(seq, i) == SubSeq(seq, 1, i - 1) \o SubSeq(seq, i + 1, Len(seq))

\* One statement after another: F is the rest of the function, run in the
\* state the statement leaves.
Then(s, F(_)) == F(s)

\* ------------------------------------------------------------------ rpmlock
\* The lock object: the descriptor's open mode, fdrefs (1 when not held, one
\* more for every acquisition of this process) and the mode of the file lock
\* held, {} when none.
NoLock == [exists |-> FALSE, openmode |-> {}, fdrefs |-> 0, held |-> {}]

rpmlockNew(s, env) ==
    CASE env.lockNew = "rw" ->
           [s EXCEPT !.lock = [exists |-> TRUE,
                               openmode |-> RPMLOCK_READ \cup RPMLOCK_WRITE,
                               fdrefs |-> 1, held |-> {}]]
      [] env.lockNew = "ro" ->
           [s EXCEPT !.lock = [exists |-> TRUE, openmode |-> RPMLOCK_READ,
                               fdrefs |-> 1, held |-> {}]]
      [] OTHER -> [s EXCEPT !.lock = NoLock]

\* An acquisition by a process that holds the lock already only counts; a
\* first one asks the system for the file lock in the given mode.
rpmlockAcquire(s, mode, env) ==
    IF ~s.lock.exists \/ (mode \cap s.lock.openmode) = {} THEN Ret(s, 0)
    ELSE IF s.lock.fdrefs > 1
    THEN Ret([s EXCEPT !.lock.fdrefs = @ + 1], 1)
    ELSE IF env.lockAcquire
    THEN Ret([s EXCEPT !.lock.fdrefs = @ + 1, !.lock.held = mode], 1)
    ELSE Ret(s, 0)

rpmlockRelease(s) ==
    IF s.lock.fdrefs <= 1 THEN s
    ELSE IF s.lock.fdrefs - 1 = 1
    THEN [s EXCEPT !.lock.fdrefs = 1, !.lock.held = {}]
    ELSE [s EXCEPT !.lock.fdrefs = @ - 1]

rpmlockFree(s) == [s EXCEPT !.lock = NoLock]

\* ------------------------------------------------------------------- rpmsq
\* rpmsqBlock: blocking nests; the mask is set by the first SIG_BLOCK and
\* restored by the SIG_UNBLOCK that matches it.
rpmsqBlock(s, op) ==
    IF op = "SIG_BLOCK" THEN [s EXCEPT !.blocked = @ + 1]
    ELSE IF s.blocked - 1 < 0 THEN [s EXCEPT !.blocked = 0]
    ELSE [s EXCEPT !.blocked = @ - 1]

SignalsBlocked(b) == b > 0

\* -------------------------------------------------------------- references
rpmtsLink(s) == [s EXCEPT !.nrefs = @ + 1]

rpmtsSetChangeCallback(s, cb) == [s EXCEPT !.change = cb]

rpmtsNElements(s) == Len(s.order)

\* rpmtsElement: the element at the 0-based index ix, 0 for null; an element
\* is named by its position in order, counted from 1.
rpmtsElement(s, ix) ==
    IF ix >= 0 /\ ix < Len(s.order) THEN ix + 1 ELSE 0

rpmteType(s, te) == s.order[te]

rpmtsNotifyChange(s, event, te) ==
    IF s.change THEN Call(s, "change", <<event, te, s.order[te]>>, {})
    ELSE s

rpmtsCloseDB(s) ==
    IF s.rdb # NULL
    THEN Ret([Call(s, "rpmdbClose", s.rdb, {}) EXCEPT !.rdb = NULL], 0)
    ELSE Ret(s, 0)

\* ---------------------------------------------------------------- iterator
NewIter(types) ==
    [oc |-> 0, types |-> types, yielded |-> <<>>, sawNull |-> FALSE,
     late |-> FALSE, clean |-> TRUE]

\* rpmtsiInit: the new iterator is the last of iters
rpmtsiInit(s) ==
    LET s1 == rpmtsLink(s)
    IN [s1 EXCEPT !.iters = Append(@, NewIter({}))]

rpmtsiNextElement(s, i) ==
    IF i = 0 \/ ~s.alive \/ rpmtsNElements(s) <= 0 THEN Ret(s, 0)
    ELSE IF s.iters[i].oc < rpmtsNElements(s)
    THEN Ret([s EXCEPT !.iters[i].oc = @ + 1],
             rpmtsElement(s, s.iters[i].oc))
    ELSE Ret(s, 0)

\* rpmtsiNext without the test of the type mask
rpmtsiNext_noFilter(s, i, types) == rpmtsiNextElement(s, i)

RECURSIVE rpmtsiNext(_, _, _)
rpmtsiNext(s, i, types) ==
    Then(rpmtsiNextElement(s, i), LAMBDA s1 :
      IF s1.ret = 0 THEN s1
      ELSE IF types = {} \/ (rpmteType(s1, s1.ret) \cap types) # {} THEN s1
      ELSE rpmtsiNext(s1, i, types))

\* while ((p = rpmtsiNext(pi, 0)) != NULL) f(p);
RECURSIVE Drain(_, _, _)
Drain(s, i, f) ==
    Then(rpmtsiNext(s, i, {}), LAMBDA s1 :
      IF s1.ret = 0 THEN s1 ELSE Drain(Call(s1, f, s1.ret, {}), i, f))

\* rpmtsFree empties the set, and the iterators of rpmtsClean free their
\* reference to it with rpmtsFree again.
RECURSIVE rpmtsFree(_)
RECURSIVE rpmtsiFree(_, _)
RECURSIVE rpmtsCleanProblems(_)
RECURSIVE rpmtsClean(_)
RECURSIVE rpmtsEmpty(_)

\* rpmtsiFree keeping the reference of the iterator
rpmtsiFree_keepRef(s, i) ==
    IF i = 0 THEN s
    ELSE [s EXCEPT !.iters = RemoveAt(@, i)]

rpmtsiFree(s, i) ==
    IF i = 0 THEN s
    ELSE LET s1 == rpmtsFree(s)
         IN [s1 EXCEPT !.iters = RemoveAt(@, i)]

rpmtsCleanProblems(s) ==
    Then(rpmtsiInit(s), LAMBDA s1 :
    Then(Drain(s1, Len(s1.iters), "rpmteCleanProblems"), LAMBDA s2 :
      rpmtsiFree(s2, Len(s2.iters))))

rpmtsClean(s) ==
    Then(rpmtsiInit(s), LAMBDA s1 :
    Then(Drain(s1, Len(s1.iters), "rpmteCleanDS"), LAMBDA s2 :
    Then(rpmtsiFree(s2, Len(s2.iters)), LAMBDA s3 :
      rpmtsCleanProblems(s3))))

\* for (auto & te : tsmem->order) { rpmtsNotifyChange(DEL, te); rpmteFree(te); }
RECURSIVE NotifyDel(_, _)
NotifyDel(s, te) ==
    IF te > Len(s.order) THEN s
    ELSE NotifyDel(rpmtsNotifyChange(s, RPMTS_EVENT_DEL, te), te + 1)

\* rpmstrPoolFree drops the caller's reference and returns null
rpmstrPoolFree(p) == 0

\* rpmtsEmpty clearing order before it tells the callback
rpmtsEmpty_clearFirst(s) ==
    LET s1 == rpmtsClean(s)
        s2 == NotifyDel([s1 EXCEPT !.order = <<>>], 1)
    IN [s2 EXCEPT !.pool = rpmstrPoolFree(@),
                  !.removedPackages = {}]

\* rpmtsEmpty keeping the pool of the set
rpmtsEmpty_keepPool(s) ==
    LET s1 == rpmtsClean(s)
        s2 == NotifyDel(s1, 1)
    IN [s2 EXCEPT !.order = <<>>,
                  !.removedPackages = {}]

rpmtsEmpty(s) ==
    LET s1 == rpmtsClean(s)
        s2 == NotifyDel(s1, 1)
    IN [s2 EXCEPT !.order = <<>>,
                  !.pool = rpmstrPoolFree(@),
                  !.removedPackages = {}]

\* rpmtsFree emptying the set before it takes the change callback away
rpmtsFree_emptyFirst(s) ==
    IF s.nrefs - 1 > 0 THEN [s EXCEPT !.nrefs = @ - 1]
    ELSE LET s0 == [s EXCEPT !.nrefs = @ - 1]
             s1 == rpmtsLink(s0)
             s2 == rpmtsEmpty(s1)
             s3 == rpmtsSetChangeCallback(s2, FALSE)
             s4 == rpmtsCloseDB(s3)
             s5 == rpmlockFree([s4 EXCEPT !.keystore = NULL,
                                          !.rootDir = NULL,
                                          !.lockPath = NULL])
         IN [s5 EXCEPT !.keyring = <<>>, !.alive = FALSE,
                       !.destroyed = @ + 1]

rpmtsFree(s) ==
    IF s.nrefs - 1 > 0 THEN [s EXCEPT !.nrefs = @ - 1]
    ELSE LET s0 == [s EXCEPT !.nrefs = @ - 1]
             s1 == rpmtsLink(s0)
             s2 == rpmtsSetChangeCallback(s1, FALSE)
             s3 == rpmtsEmpty(s2)
             s4 == rpmtsCloseDB(s3)
             s5 == rpmlockFree([s4 EXCEPT !.keystore = NULL,
                                          !.rootDir = NULL,
                                          !.lockPath = NULL])
         IN [s5 EXCEPT !.keyring = <<>>, !.alive = FALSE,
                       !.destroyed = @ + 1]

rpmtsPool(s) ==
    IF s.pool = 0
    THEN Ret([s EXCEPT !.pool = s.pools + 1, !.pools = @ + 1], s.pools + 1)
    ELSE Ret(s, s.pool)

\* ------------------------------------------------------------- transaction
\* rpmtxnBegin blocking the signals before it has the lock
rpmtxnBegin_blockFirst(s, flags, env) ==
    LET lockmode == IF (flags \cap RPMTXN_WRITE) # {} THEN RPMLOCK_WRITE
                    ELSE RPMLOCK_READ
    IN
    Then(IF s.lockPath = NULL
         THEN [s EXCEPT !.lockPath =
                          IF s.rootDir = NULL THEN "/" ELSE s.rootDir]
         ELSE s, LAMBDA s1 :
    Then(IF ~s1.lock.exists THEN rpmlockNew(s1, env) ELSE s1, LAMBDA s2 :
    Then(IF (flags \cap RPMTXN_WRITE) # {}
         THEN rpmsqBlock(s2, "SIG_BLOCK") ELSE s2, LAMBDA s3 :
    Then(rpmlockAcquire(s3, lockmode, env), LAMBDA s4 :
      IF s4.ret # 0
      THEN Then([rpmtsLink(s4) EXCEPT !.txns = Append(@, [flags |-> flags])],
                LAMBDA s5 : Ret(s5, Len(s5.txns)))
      ELSE Ret(s4, 0)))))

\* rpmtxnBegin whose handle takes no reference to the set
rpmtxnBegin_noLink(s, flags, env) ==
    LET lockmode == IF (flags \cap RPMTXN_WRITE) # {} THEN RPMLOCK_WRITE
                    ELSE RPMLOCK_READ
    IN
    Then(IF s.lockPath = NULL
         THEN [s EXCEPT !.lockPath =
                          IF s.rootDir = NULL THEN "/" ELSE s.rootDir]
         ELSE s, LAMBDA s1 :
    Then(IF ~s1.lock.exists THEN rpmlockNew(s1, env) ELSE s1, LAMBDA s2 :
    Then(rpmlockAcquire(s2, lockmode, env), LAMBDA s3 :
      IF s3.ret # 0
      THEN Then([s3 EXCEPT !.txns = Append(@, [flags |-> flags])],
                LAMBDA s4 :
           Then(IF (flags \cap RPMTXN_WRITE) # {}
                THEN rpmsqBlock(s4, "SIG_BLOCK") ELSE s4, LAMBDA s5 :
             Ret(s5, Len(s5.txns))))
      ELSE Ret(s3, 0))))

\* rpmtxnBegin generating the lock path at every begin
rpmtxnBegin_newPath(s, flags, env) ==
    LET lockmode == IF (flags \cap RPMTXN_WRITE) # {} THEN RPMLOCK_WRITE
                    ELSE RPMLOCK_READ
    IN
    Then([s EXCEPT !.lockPath =
                     IF s.rootDir = NULL THEN "/" ELSE s.rootDir],
         LAMBDA s1 :
    Then(IF ~s1.lock.exists THEN rpmlockNew(s1, env) ELSE s1, LAMBDA s2 :
    Then(rpmlockAcquire(s2, lockmode, env), LAMBDA s3 :
      IF s3.ret # 0
      THEN Then([rpmtsLink(s3) EXCEPT !.txns = Append(@, [flags |-> flags])],
                LAMBDA s4 :
           Then(IF (flags \cap RPMTXN_WRITE) # {}
                THEN rpmsqBlock(s4, "SIG_BLOCK") ELSE s4, LAMBDA s5 :
             Ret(s5, Len(s5.txns))))
      ELSE Ret(s3, 0))))

\* rpmtxnBegin: ret is the position of the new handle in txns, 0 for null
rpmtxnBegin(s, flags, env) ==
    LET lockmode == IF (flags \cap RPMTXN_WRITE) # {} THEN RPMLOCK_WRITE
                    ELSE RPMLOCK_READ
    IN
    Then(IF s.lockPath = NULL
         THEN [s EXCEPT !.lockPath =
                          IF s.rootDir = NULL THEN "/" ELSE s.rootDir]
         ELSE s, LAMBDA s1 :
    Then(IF ~s1.lock.exists THEN rpmlockNew(s1, env) ELSE s1, LAMBDA s2 :
    Then(rpmlockAcquire(s2, lockmode, env), LAMBDA s3 :
      IF s3.ret # 0
      THEN Then([rpmtsLink(s3) EXCEPT !.txns = Append(@, [flags |-> flags])],
                LAMBDA s4 :
           Then(IF (flags \cap RPMTXN_WRITE) # {}
                THEN rpmsqBlock(s4, "SIG_BLOCK") ELSE s4, LAMBDA s5 :
             Ret(s5, Len(s5.txns))))
      ELSE Ret(s3, 0))))

\* rpmtxnEnd unblocking the signals for every handle, READ too
rpmtxnEnd_unblockAll(s, txn) ==
    IF txn = 0 THEN s
    ELSE LET s1 == rpmlockRelease(s)
             s2 == rpmsqBlock(s1, "SIG_UNBLOCK")
             s3 == rpmtsFree(s2)
         IN [s3 EXCEPT !.txns = RemoveAt(@, txn)]

rpmtxnEnd(s, txn) ==
    IF txn = 0 THEN s
    ELSE LET flags == s.txns[txn].flags
         IN Then(rpmlockRelease(s), LAMBDA s1 :
            Then(IF (flags \cap RPMTXN_WRITE) # {}
                 THEN rpmsqBlock(s1, "SIG_UNBLOCK") ELSE s1, LAMBDA s2 :
            Then(rpmtsFree(s2), LAMBDA s3 :
              [s3 EXCEPT !.txns = RemoveAt(@, txn)])))

HandleFlags(s, txn) == IF txn = 0 THEN {} ELSE s.txns[txn].flags

\* ---------------------------------------------------------------- database
\* rpmdbOpen stores a handle only when it succeeds
rpmdbOpen(s, mode, env) ==
    IF env.dbOpen
    THEN Ret([Call(s, "rpmdbOpen", mode, {}) EXCEPT !.rdb = mode], 0)
    ELSE Ret(Call(s, "rpmdbOpen", mode, {}), 1)

\* rpmtsOpenDB taking any open handle for the one asked for
rpmtsOpenDB_anyMode(s, mode, env) ==
    IF s.rdb # NULL THEN Ret(s, 0)
    ELSE Then(rpmtsCloseDB(s), LAMBDA s1 :
         Then([s1 EXCEPT !.dbmode = mode], LAMBDA s2 :
           rpmdbOpen(s2, s2.dbmode, env)))

\* rpmtsOpenDB opening over the handle it has, without closing it
rpmtsOpenDB_noClose(s, mode, env) ==
    IF s.rdb # NULL /\ s.dbmode = mode THEN Ret(s, 0)
    ELSE Then([s EXCEPT !.dbmode = mode], LAMBDA s2 :
           rpmdbOpen(s2, s2.dbmode, env))

rpmtsOpenDB(s, mode, env) ==
    IF s.rdb # NULL /\ s.dbmode = mode THEN Ret(s, 0)
    ELSE Then(rpmtsCloseDB(s), LAMBDA s1 :
         Then([s1 EXCEPT !.dbmode = mode], LAMBDA s2 :
           rpmdbOpen(s2, s2.dbmode, env)))

rpmtsGetRdb(s) == s.rdb

\* rpmtsSetDBMode without the test for an open database
rpmtsSetDBMode_open(s, mode) == Ret([s EXCEPT !.dbmode = mode], 0)

rpmtsSetDBMode(s, mode) ==
    IF rpmtsGetRdb(s) = NULL THEN Ret([s EXCEPT !.dbmode = mode], 0)
    ELSE Ret(s, 1)

\* a database operation below rpmts.cc: 0 when it succeeds, 1 when not
DbCall(s, name, h, env) ==
    Ret(Call(s, name, {}, h), IF env.dbOk THEN 0 ELSE 1)

rpmtsInitDB(s, env) ==
    Then(rpmtxnBegin(s, RPMTXN_WRITE, env), LAMBDA s1 :
    Then(IF s1.ret # 0 THEN DbCall(s1, "rpmdbInit", {}, env)
         ELSE Ret(s1, -1), LAMBDA s2 :
      Ret(rpmtxnEnd(s2, s1.ret), s2.ret)))

\* rpmtsRebuildDB without the test for a populated set
rpmtsRebuildDB_populated(s, env) ==
    Then(rpmtxnBegin(s, RPMTXN_WRITE, env), LAMBDA s1 :
      IF s1.ret # 0
      THEN Then(DbCall(s1, "rpmdbRebuild", {}, env), LAMBDA s2 :
             Ret(rpmtxnEnd(s2, s1.ret), s2.ret))
      ELSE Ret(s1, -1))

rpmtsRebuildDB(s, env) ==
    IF rpmtsNElements(s) > 0 THEN Ret(s, -1)
    ELSE Then(rpmtxnBegin(s, RPMTXN_WRITE, env), LAMBDA s1 :
           IF s1.ret # 0
           THEN Then(DbCall(s1, "rpmdbRebuild", {}, env), LAMBDA s2 :
                  Ret(rpmtxnEnd(s2, s1.ret), s2.ret))
           ELSE Ret(s1, -1))

\* rpmtsVerifyDB returning at once when the verification fails
rpmtsVerifyDB_leak(s, env) ==
    Then(rpmtxnBegin(s, RPMTXN_READ, env), LAMBDA s1 :
      IF s1.ret # 0
      THEN Then(DbCall(s1, "rpmdbVerify", {}, env), LAMBDA s2 :
             IF s2.ret # 0 THEN s2
             ELSE Ret(rpmtxnEnd(s2, s1.ret), s2.ret))
      ELSE Ret(s1, -1))

rpmtsVerifyDB(s, env) ==
    Then(rpmtxnBegin(s, RPMTXN_READ, env), LAMBDA s1 :
      IF s1.ret # 0
      THEN Then(DbCall(s1, "rpmdbVerify", {}, env), LAMBDA s2 :
             Ret(rpmtxnEnd(s2, s1.ret), s2.ret))
      ELSE Ret(s1, -1))

\* ----------------------------------------------------------------- keyring
\* getKeystore making a keystore at every use
getKeystore_fresh(s) ==
    IF s.krtype = "fs"
    THEN [Call(s, "new keystore", "fs", {}) EXCEPT !.keystore = "fs"]
    ELSE IF s.krtype = "rpmdb"
    THEN [Call(s, "new keystore", "rpmdb", {}) EXCEPT !.keystore = "rpmdb"]
    ELSE [Call(Call(s, "rpmlog", "unknown keyring type", {}),
               "new keystore", "rpmdb", {})
            EXCEPT !.keystore = "rpmdb"]

\* getKeystore warning of every type but fs
getKeystore_warn(s) ==
    IF s.keystore = NULL
    THEN IF s.krtype = "fs"
         THEN [Call(s, "new keystore", "fs", {}) EXCEPT !.keystore = "fs"]
         ELSE [Call(Call(s, "rpmlog", "unknown keyring type", {}),
                    "new keystore", "rpmdb", {})
                 EXCEPT !.keystore = "rpmdb"]
    ELSE s

getKeystore(s) ==
    IF s.keystore = NULL
    THEN IF s.krtype = "fs"
         THEN [Call(s, "new keystore", "fs", {}) EXCEPT !.keystore = "fs"]
         ELSE IF s.krtype = "rpmdb"
         THEN [Call(s, "new keystore", "rpmdb", {})
                 EXCEPT !.keystore = "rpmdb"]
         ELSE [Call(Call(s, "rpmlog", "unknown keyring type", {}),
                    "new keystore", "rpmdb", {})
                 EXCEPT !.keystore = "rpmdb"]
    ELSE s

\* loadKeyring without the test of the verification flags
loadKeyring_always(s, env) ==
    Then(getKeystore(s), LAMBDA s1 :
    Then([s1 EXCEPT !.keyring = <<{}>>], LAMBDA s2 :
    Then(rpmtxnBegin(s2, RPMTXN_READ, env), LAMBDA s3 :
      IF s3.ret # 0
      THEN Then([Call(s3, "load_keys", s3.keystore,
                      HandleFlags(s3, s3.ret))
                   EXCEPT !.keyring = <<s3.stored>>], LAMBDA s4 :
             rpmtxnEnd(s4, s3.ret))
      ELSE s3)))

loadKeyring(s, env) ==
    IF (s.vsflags \cap RPMVSF_MASK_NOSIGNATURES) # RPMVSF_MASK_NOSIGNATURES
    THEN Then(getKeystore(s), LAMBDA s1 :
         Then([s1 EXCEPT !.keyring = <<{}>>], LAMBDA s2 :
         Then(rpmtxnBegin(s2, RPMTXN_READ, env), LAMBDA s3 :
           IF s3.ret # 0
           THEN Then([Call(s3, "load_keys", s3.keystore,
                           HandleFlags(s3, s3.ret))
                        EXCEPT !.keyring = <<s3.stored>>], LAMBDA s4 :
                  rpmtxnEnd(s4, s3.ret))
           ELSE s3)))
    ELSE s

\* ret is 1 when a keyring is returned, 0 when null
rpmtsGetKeyring(s, autoload, env) ==
    Then(IF s.keyring = <<>> /\ autoload THEN loadKeyring(s, env) ELSE s,
         LAMBDA s1 : Ret(s1, IF s1.keyring = <<>> THEN 0 ELSE 1))

rpmtsSetKeyring(s, kr) == Ret([s EXCEPT !.keyring = kr], 0)

rpmtsVSFlags(s) == s.vsflags

rpmtsSetVSFlags(s, vs) == [s EXCEPT !.vsflags = vs]

rpmtsFlags(s) == s.transFlags

rpmtsSetFlags(s, f) == [s EXCEPT !.transFlags = f]

risdigit(c) == c \in {"0", "1", "2", "3", "4", "5", "6", "7", "8", "9"}

\* for (se = s; *se && risdigit(*se); se++): the position the scan stops at
RECURSIVE SkipDigits(_, _)
SkipDigits(ks, se) ==
    IF se <= Len(ks) /\ risdigit(ks[se]) THEN SkipDigits(ks, se + 1) ELSE se

\* the label loop copying the epoch like any other character
RECURSIVE ParseLabel_keepEpoch(_, _, _, _)
ParseLabel_keepEpoch(ks, i, t, level) ==
    IF i > Len(ks)
    THEN IF level # 0 THEN [ok |-> FALSE, err |-> "missing ')'", key |-> t]
         ELSE [ok |-> TRUE, err |-> "", key |-> t]
    ELSE IF ks[i] = "("
    THEN IF level # 0 THEN [ok |-> FALSE, err |-> "extra '('", key |-> t]
         ELSE ParseLabel_keepEpoch(ks, i + 1, Append(t, "-"), level + 1)
    ELSE IF ks[i] = ")"
    THEN IF level - 1 # 0
         THEN [ok |-> FALSE, err |-> "missing '('", key |-> t]
         ELSE ParseLabel_keepEpoch(ks, i + 1, t, level - 1)
    ELSE ParseLabel_keepEpoch(ks, i + 1, Append(t, ks[i]), level)

\* The loop over the label key: i is the position of the next character
\* read, t the characters written so far, level the depth of parentheses.
RECURSIVE ParseLabel(_, _, _, _)
ParseLabel(ks, i, t, level) ==
    IF i > Len(ks)
    THEN IF level # 0 THEN [ok |-> FALSE, err |-> "missing ')'", key |-> t]
         ELSE [ok |-> TRUE, err |-> "", key |-> t]
    ELSE IF ks[i] = "("
    THEN IF level # 0 THEN [ok |-> FALSE, err |-> "extra '('", key |-> t]
         ELSE Then(SkipDigits(ks, i + 1), LAMBDA se :
                IF se <= Len(ks) /\ ks[se] = ":"
                THEN ParseLabel(ks, se + 1, Append(t, "-"), level + 1)
                ELSE ParseLabel(ks, i + 1, Append(t, "-"), level + 1))
    ELSE IF ks[i] = ")"
    THEN IF level - 1 # 0
         THEN [ok |-> FALSE, err |-> "missing '('", key |-> t]
         ELSE ParseLabel(ks, i + 1, t, level - 1)
    ELSE ParseLabel(ks, i + 1, Append(t, ks[i]), level)

\* strchr(s, '(')
HasParen(ks) == \E i \in 1..Len(ks) : ks[i] = "("

\* ret is 1 when mi is returned, 0 when null
rpmtsInitIterator(s, rpmtag, keyp, env) ==
    Then(IF s.rdb = NULL THEN rpmtsOpenDB(s, s.dbmode, env) ELSE Ret(s, 0),
         LAMBDA s1 :
      IF s1.ret # 0 THEN Ret(s1, 0)
      ELSE Then(IF s1.keyring = <<>> THEN loadKeyring(s1, env) ELSE s1,
                LAMBDA s2 :
        IF rpmtag = RPMDBI_LABEL /\ ~keyp.null /\ HasParen(keyp.str)
        THEN Then(ParseLabel(keyp.str, 1, <<>>, 0), LAMBDA p :
               IF p.ok
               THEN Ret(Call(s2, "rpmdbInitIterator",
                             <<rpmtag, StrKey(p.key)>>, {}), 1)
               ELSE Ret(Call(s2, "rpmlog", p.err, {}), 0))
        ELSE Ret(Call(s2, "rpmdbInitIterator", <<rpmtag, keyp>>, {}), 1)))

rpmtsImportHeader(s, txn, h, env) ==
    IF txn # 0 /\ h
    THEN Then(rpmtsOpenDB(s, O_RDWR_CREAT, env), LAMBDA s1 :
           IF s1.ret = 0
           THEN Then(DbCall(s1, "rpmdbAdd", HandleFlags(s1, txn), env),
                     LAMBDA s2 :
                  Ret(s2, IF s2.ret = 0 THEN "RPMRC_OK" ELSE "RPMRC_FAIL"))
           ELSE Ret(s1, "RPMRC_FAIL"))
    ELSE Ret(s, "RPMRC_FAIL")

\* the key of the keyring with the fingerprint of pubkey, as a set
rpmKeyringLookupKey(kr, pubkey) ==
    IF kr = <<>> THEN {} ELSE {k \in kr[1] : k.fp = pubkey.fp}

\* the keyring after rpmKeyringModify(ADD or REPLACE) of key
KeyringPut(kr, key) ==
    <<{k \in kr[1] : k.fp # key.fp} \cup {key}>>

\* import_key of the keystore: a key of the same fingerprint is replaced
StorePut(st, key) == {k \in st : k.fp # key.fp} \cup {key}

\* ts->keystore->F(...): the call through a keystore that is null is
\* undefined; the process ends there, or goes on as if the keystore were one.
Deref(s, env, F(_)) ==
    IF s.keystore = NULL /\ ~env.deref
    THEN Ret([Call(s, "SIGSEGV", {}, {}) EXCEPT !.alive = FALSE], "SIGSEGV")
    ELSE F(s)

\* rpmtxnImportPubkey storing the key also when the merge adds nothing
rpmtxnImportPubkey_alwaysStore(s, txn, pkt, env) ==
    IF txn = 0 THEN Ret(s, "RPMRC_FAIL")
    ELSE IF ~env.lint THEN Ret(s, "RPMRC_FAIL")
    ELSE
    Then(rpmtsVSFlags(s), LAMBDA oflags :
    Then(rpmtsSetVSFlags(s, oflags \ RPMVSF_MASK_NOSIGNATURES), LAMBDA s1 :
    Then(rpmtsGetKeyring(s1, TRUE, env), LAMBDA s2 :
    Then(rpmtsSetVSFlags(s2, oflags), LAMBDA s3 :
      IF ~env.parse THEN Ret(s3, "RPMRC_FAIL")
      ELSE
      Then(rpmKeyringLookupKey(s3.keyring, pkt), LAMBDA old :
        LET oldkey == CHOOSE k \in old : TRUE
            merged == [fp |-> pkt.fp, mat |-> oldkey.mat \cup pkt.mat]
            pubkey == IF old # {} THEN merged ELSE pkt
            krc == IF s3.keyring = <<>> \/ ~env.modify THEN -1 ELSE 0
        IN IF old # {} /\ ~env.merge
           THEN Ret(Call(s3, "rpmPubkeyMerge", "RPMRC_FAIL", {}),
                    "RPMRC_FAIL")
           ELSE
           Then(Call(s3, "rpmKeyringModify", krc, {}), LAMBDA s3m :
           IF krc < 0 THEN Ret(s3m, "RPMRC_FAIL")
           ELSE IF krc # 0 THEN Ret(s3m, "RPMRC_OK")
           ELSE
           Then([s3m EXCEPT !.keyring = KeyringPut(@, pubkey)], LAMBDA s4 :
           Deref(s4, env, LAMBDA s4d :
           Then(Call(s4d, "import_key", <<s4d.keystore, pubkey, old # {}>>,
                     HandleFlags(s4d, txn)), LAMBDA s5 :
             IF env.store
             THEN Ret([s5 EXCEPT !.stored = StorePut(@, pubkey)], "RPMRC_OK")
             ELSE Ret(s5, "RPMRC_FAIL"))))))))))

\* rpmtxnImportPubkey storing the key whatever rpmKeyringModify returned
rpmtxnImportPubkey_storeAnyway(s, txn, pkt, env) ==
    IF txn = 0 THEN Ret(s, "RPMRC_FAIL")
    ELSE IF ~env.lint THEN Ret(s, "RPMRC_FAIL")
    ELSE
    Then(rpmtsVSFlags(s), LAMBDA oflags :
    Then(rpmtsSetVSFlags(s, oflags \ RPMVSF_MASK_NOSIGNATURES), LAMBDA s1 :
    Then(rpmtsGetKeyring(s1, TRUE, env), LAMBDA s2 :
    Then(rpmtsSetVSFlags(s2, oflags), LAMBDA s3 :
      IF ~env.parse THEN Ret(s3, "RPMRC_FAIL")
      ELSE
      Then(rpmKeyringLookupKey(s3.keyring, pkt), LAMBDA old :
        LET oldkey == CHOOSE k \in old : TRUE
            merged == [fp |-> pkt.fp, mat |-> oldkey.mat \cup pkt.mat]
            pubkey == IF old # {} THEN merged ELSE pkt
            krc == IF s3.keyring = <<>> \/ ~env.modify THEN -1 ELSE 0
        IN IF old # {} /\ ~env.merge
           THEN Ret(Call(s3, "rpmPubkeyMerge", "RPMRC_FAIL", {}),
                    "RPMRC_FAIL")
           ELSE IF old # {} /\ pkt.mat \subseteq oldkey.mat
           THEN Ret(s3, "RPMRC_OK")
           ELSE
           Then(Call(s3, "rpmKeyringModify", krc, {}), LAMBDA s3m :
           IF krc > 0 THEN Ret(s3m, "RPMRC_OK")
           ELSE
           Then([s3m EXCEPT !.keyring = KeyringPut(@, pubkey)], LAMBDA s4 :
           Deref(s4, env, LAMBDA s4d :
           Then(Call(s4d, "import_key", <<s4d.keystore, pubkey, old # {}>>,
                     HandleFlags(s4d, txn)), LAMBDA s5 :
             IF env.store
             THEN Ret([s5 EXCEPT !.stored = StorePut(@, pubkey)], "RPMRC_OK")
             ELSE Ret(s5, "RPMRC_FAIL"))))))))))

rpmtxnImportPubkey(s, txn, pkt, env) ==
    IF txn = 0 THEN Ret(s, "RPMRC_FAIL")
    ELSE IF ~env.lint THEN Ret(s, "RPMRC_FAIL")
    ELSE
    Then(rpmtsVSFlags(s), LAMBDA oflags :
    Then(rpmtsSetVSFlags(s, oflags \ RPMVSF_MASK_NOSIGNATURES), LAMBDA s1 :
    Then(rpmtsGetKeyring(s1, TRUE, env), LAMBDA s2 :
    Then(rpmtsSetVSFlags(s2, oflags), LAMBDA s3 :
      IF ~env.parse THEN Ret(s3, "RPMRC_FAIL")
      ELSE
      Then(rpmKeyringLookupKey(s3.keyring, pkt), LAMBDA old :
        LET oldkey == CHOOSE k \in old : TRUE
            merged == [fp |-> pkt.fp, mat |-> oldkey.mat \cup pkt.mat]
            pubkey == IF old # {} THEN merged ELSE pkt
            krc == IF s3.keyring = <<>> \/ ~env.modify THEN -1 ELSE 0
        IN IF old # {} /\ ~env.merge
           THEN Ret(Call(s3, "rpmPubkeyMerge", "RPMRC_FAIL", {}),
                    "RPMRC_FAIL")
           ELSE IF old # {} /\ pkt.mat \subseteq oldkey.mat
           THEN Ret(s3, "RPMRC_OK")
           ELSE
           Then(Call(s3, "rpmKeyringModify", krc, {}), LAMBDA s3m :
           IF krc < 0 THEN Ret(s3m, "RPMRC_FAIL")
           ELSE IF krc # 0 THEN Ret(s3m, "RPMRC_OK")
           ELSE
           Then([s3m EXCEPT !.keyring = KeyringPut(@, pubkey)], LAMBDA s4 :
           Deref(s4, env, LAMBDA s4d :
           Then(Call(s4d, "import_key", <<s4d.keystore, pubkey, old # {}>>,
                     HandleFlags(s4d, txn)), LAMBDA s5 :
             IF env.store
             THEN Ret([s5 EXCEPT !.stored = StorePut(@, pubkey)], "RPMRC_OK")
             ELSE Ret(s5, "RPMRC_FAIL"))))))))))

\* rpmtxnDeletePubkey without the test for a test transaction
rpmtxnDeletePubkey_noTest(s, txn, key, env) ==
    IF txn = 0 THEN Ret(s, "RPMRC_FAIL")
    ELSE
    Then(rpmtsVSFlags(s), LAMBDA oflags :
    Then(rpmtsSetVSFlags(s, oflags \ RPMVSF_MASK_NOSIGNATURES), LAMBDA s1 :
    Then(rpmtsGetKeyring(s1, TRUE, env), LAMBDA s2 :
    Then(rpmtsSetVSFlags(s2, oflags), LAMBDA s3 :
    Deref(s3, env, LAMBDA s4 :
    Then(Call(s4, "delete_key", <<s4.keystore, key>>,
              HandleFlags(s4, txn)), LAMBDA s5 :
      Ret(IF env.store
          THEN [s5 EXCEPT !.stored = {k \in @ : k.fp # key.fp}]
          ELSE s5, "RPMRC_OK")))))))

\* rpmtxnDeletePubkey leaving the verification forced on
rpmtxnDeletePubkey_noRestore(s, txn, key, env) ==
    IF txn = 0 THEN Ret(s, "RPMRC_FAIL")
    ELSE
    Then(rpmtsVSFlags(s), LAMBDA oflags :
    Then(rpmtsSetVSFlags(s, oflags \ RPMVSF_MASK_NOSIGNATURES), LAMBDA s1 :
    Then(rpmtsGetKeyring(s1, TRUE, env), LAMBDA s3 :
      IF (rpmtsFlags(s3) \cap RPMTRANS_FLAG_TEST) # {}
      THEN Ret(s3, "RPMRC_OK")
      ELSE Deref(s3, env, LAMBDA s4 :
           Then(Call(s4, "delete_key", <<s4.keystore, key>>,
                     HandleFlags(s4, txn)), LAMBDA s5 :
             Ret(IF env.store
                 THEN [s5 EXCEPT !.stored = {k \in @ : k.fp # key.fp}]
                 ELSE s5, "RPMRC_OK"))))))

\* rpmtxnDeletePubkey returning what delete_key returned
rpmtxnDeletePubkey_keepRc(s, txn, key, env) ==
    IF txn = 0 THEN Ret(s, "RPMRC_FAIL")
    ELSE
    Then(rpmtsVSFlags(s), LAMBDA oflags :
    Then(rpmtsSetVSFlags(s, oflags \ RPMVSF_MASK_NOSIGNATURES), LAMBDA s1 :
    Then(rpmtsGetKeyring(s1, TRUE, env), LAMBDA s2 :
    Then(rpmtsSetVSFlags(s2, oflags), LAMBDA s3 :
      IF (rpmtsFlags(s3) \cap RPMTRANS_FLAG_TEST) # {}
      THEN Ret(s3, "RPMRC_OK")
      ELSE Deref(s3, env, LAMBDA s4 :
           Then(Call(s4, "delete_key", <<s4.keystore, key>>,
                     HandleFlags(s4, txn)), LAMBDA s5 :
             IF env.store
             THEN Ret([s5 EXCEPT !.stored = {k \in @ : k.fp # key.fp}],
                      "RPMRC_OK")
             ELSE Ret(s5, "RPMRC_FAIL")))))))

\* rc is delete_key's result for a moment only: RPMRC_OK is assigned to it
\* after the test of the flags, on both of its branches
rpmtxnDeletePubkey(s, txn, key, env) ==
    IF txn = 0 THEN Ret(s, "RPMRC_FAIL")
    ELSE
    Then(rpmtsVSFlags(s), LAMBDA oflags :
    Then(rpmtsSetVSFlags(s, oflags \ RPMVSF_MASK_NOSIGNATURES), LAMBDA s1 :
    Then(rpmtsGetKeyring(s1, TRUE, env), LAMBDA s2 :
    Then(rpmtsSetVSFlags(s2, oflags), LAMBDA s3 :
      IF (rpmtsFlags(s3) \cap RPMTRANS_FLAG_TEST) # {}
      THEN Ret(s3, "RPMRC_OK")
      ELSE Deref(s3, env, LAMBDA s4 :
           Then(Call(s4, "delete_key", <<s4.keystore, key>>,
                     HandleFlags(s4, txn)), LAMBDA s5 :
             Ret(IF env.store
                 THEN [s5 EXCEPT !.stored = {k \in @ : k.fp # key.fp}]
                 ELSE s5, "RPMRC_OK")))))))

\* a process that has ended inside rpmtxnImportPubkey ends no transaction
rpmtsImportPubkey(s, pkt, env) ==
    Then(rpmtxnBegin(s, RPMTXN_WRITE, env), LAMBDA s1 :
      IF s1.ret # 0
      THEN Then(rpmtxnImportPubkey(s1, s1.ret, pkt, env), LAMBDA s2 :
             IF ~s2.alive THEN s2
             ELSE Ret(rpmtxnEnd(s2, s1.ret), s2.ret))
      ELSE Ret(s1, "RPMRC_FAIL"))

\* ---------------------------------------------------------------- root dir
\* The path strings of the model and the characters each is made of.
Paths == {"", "/", "//", "/a", "/a/", "a", "a/"}

PathChars ==
    ("" :> <<>>) @@ ("/" :> <<"/">>) @@ ("//" :> <<"/", "/">>)
    @@ ("/a" :> <<"/", "a">>) @@ ("/a/" :> <<"/", "a", "/">>)
    @@ ("a" :> <<"a">>) @@ ("a/" :> <<"a", "/">>)

PathOf(cs) == CHOOSE p \in Paths : PathChars[p] = cs

\* rootDir[0], the terminator for the empty string
FirstChar(p) == IF PathChars[p] = <<>> THEN "NUL" ELSE PathChars[p][1]

\* rpmCleanPath: runs of '/' become one '/', and a trailing '/' is trimmed
\* from every path but the single '/'
RECURSIVE Squeeze(_)
Squeeze(cs) ==
    IF Len(cs) < 2 THEN cs
    ELSE IF cs[1] = "/" /\ cs[2] = "/" THEN Squeeze(Tail(cs))
    ELSE <<cs[1]>> \o Squeeze(Tail(cs))

rpmCleanPath(cs) ==
    Then(Squeeze(cs), LAMBDA q :
      IF Len(q) > 1 /\ q[Len(q)] = "/" THEN SubSeq(q, 1, Len(q) - 1) ELSE q)

rpmGetPath(p) == PathOf(rpmCleanPath(PathChars[p]))

rstrcat(p, q) == PathOf(PathChars[p] \o PathChars[q])

rstreq(p, q) == PathChars[p] = PathChars[q]

\* rpmtsSetRootDir without the test of the first character
rpmtsSetRootDir_relative(s, dir) ==
    Then([s EXCEPT !.rootDir = IF dir # NULL THEN rpmGetPath(dir)
                                ELSE "/"], LAMBDA s1 :
      Ret(IF ~rstreq(s1.rootDir, "/")
          THEN [s1 EXCEPT !.rootDir = rstrcat(@, "/")] ELSE s1, 0))

\* rpmtsSetRootDir without the trailing slash
rpmtsSetRootDir_noSlash(s, dir) ==
    IF dir # NULL /\ FirstChar(dir) # "/" THEN Ret(s, -1)
    ELSE Ret([s EXCEPT !.rootDir = IF dir # NULL THEN rpmGetPath(dir)
                                   ELSE "/"], 0)

rpmtsSetRootDir(s, dir) ==
    IF dir # NULL /\ FirstChar(dir) # "/" THEN Ret(s, -1)
    ELSE Then([s EXCEPT !.rootDir = IF dir # NULL
                                    THEN rpmGetPath(dir) ELSE "/"],
              LAMBDA s1 :
           Ret(IF ~rstreq(s1.rootDir, "/")
               THEN [s1 EXCEPT !.rootDir = rstrcat(@, "/")] ELSE s1, 0))

\* -------------------------------------------------------------------- time
\* getenv("SOURCE_DATE_EPOCH"): unset, or the decimal digits of a number
Unset == [set |-> FALSE, digits |-> <<>>]

RECURSIVE Digits(_)
Digits(n) == IF n < 10 THEN <<n>> ELSE Digits(n \div 10) \o <<n % 10>>

SetTo(n) == [set |-> TRUE, digits |-> Digits(n)]

\* strtol(str, NULL, 10) of a string of digits, acc being the value so far
RECURSIVE strtol(_, _)
strtol(ds, acc) ==
    IF ds = <<>> THEN acc ELSE strtol(Tail(ds), acc * 10 + Head(ds))

\* rpmtsGetTime returning the time after the step
rpmtsGetTime_stepFirst(s, step, now) ==
    IF s.overrideTime = -1 THEN Ret(s, now)
    ELSE Then([s EXCEPT !.overrideTime = @ + step], LAMBDA s1 :
           Ret(s1, s1.overrideTime))

\* now is what time(NULL) returns
rpmtsGetTime(s, step, now) ==
    IF s.overrideTime = -1 THEN Ret(s, now)
    ELSE Ret([s EXCEPT !.overrideTime = @ + step], s.overrideTime)

\* ----------------------------------------------------------------- actions
\* The state rpmtsCreate returns: one reference, owned by the caller.
\* The clock reads Clock or later.
Clock == 50

WallClock == {Clock, Clock + 1}

rpmtsCreate(source_date_epoch, now) ==
    /\ alive = TRUE
    /\ nrefs = 1
    /\ rdb = NULL
    /\ dbmode = O_RDONLY
    /\ keyring = <<>>
    /\ keystore = NULL
    /\ vsflags = {}
    /\ transFlags = {}
    /\ rootDir = NULL
    /\ lockPath = NULL
    /\ lock = NoLock
    /\ change = FALSE
    /\ order = <<>>
    /\ removedPackages = {}
    /\ pool = 0
    /\ txns = <<>>
    /\ iters = <<>>
    /\ callerRefs = 1
    /\ pools = 0
    /\ destroyed = 0
    /\ trace = <<>>
    /\ last = [op |-> "rpmtsCreate", arg |-> {}, rc |-> 0]
    /\ epoch = source_date_epoch
    /\ timeSteps = <<>>
    /\ LET t0 == [overrideTime |-> IF source_date_epoch.set
                                   THEN strtol(source_date_epoch.digits, 0)
                                   ELSE -1,
                  ret |-> 0]
           t1 == rpmtsGetTime(t0, 0, now)
       IN /\ overrideTime = t1.overrideTime
          /\ tid = t1.ret

\* rpmtsCreate without SOURCE_DATE_EPOCH, by a caller that iterates over
\* the packages
Created ==
    /\ \E now \in {Clock} : rpmtsCreate(Unset, now)
    /\ lookup = [tag |-> RPMDBI_PACKAGES, key |-> NullKey]

Op(name, arg, rc) == [op |-> name, arg |-> arg, rc |-> rc]

\* The outcomes that matter in state s: a lock object is made only when
\* there is none, and the system is asked only for a first acquisition.
LockEnvs(s) ==
    {[Env0 EXCEPT !.lockNew = n, !.lockAcquire = a] :
        n \in IF s.lock.exists THEN {"rw"} ELSE {"rw", "ro", "fail"},
        a \in IF s.lock.fdrefs > 1 THEN {TRUE} ELSE BOOLEAN}

OpenEnvs(E) == {[e EXCEPT !.dbOpen = o] : e \in E, o \in BOOLEAN}

OkEnvs(E) == {[e EXCEPT !.dbOk = k] : e \in E, k \in BOOLEAN}

\* the outcomes of a call through the keystore: two when the set has a
\* keyring and no keystore, so that no load will select one
DerefEnvs(s, E) ==
    {[e EXCEPT !.deref = d] :
        e \in E, d \in IF s.keystore = NULL /\ s.keyring # <<>>
                       THEN BOOLEAN ELSE {TRUE}}

\* an import stops at the first step that fails
KeyEnvs(E) ==
    {[e EXCEPT ![f] = FALSE] :
        e \in E, f \in {"lint", "parse", "merge", "modify", "store"}} \cup E

\* the iterators of the caller see order change under them
Dirty(its) ==
    [i \in 1..Len(its) |-> [NewIter(its[i].types) EXCEPT
                               !.oc = its[i].oc, !.clean = FALSE]]

Link ==
    /\ alive /\ callerRefs < MaxCallerRefs
    /\ Apply([rpmtsLink(S) EXCEPT !.callerRefs = @ + 1],
             Op("rpmtsLink", {}, 0))

\* the caller frees the references it owns, no more
Free ==
    /\ alive /\ callerRefs > 0
    /\ Apply([rpmtsFree(S) EXCEPT !.callerRefs = @ - 1],
             Op("rpmtsFree", <<order, change>>, 0))

TxnBegin ==
    /\ alive /\ Len(txns) < MaxTxn
    /\ \E flags \in TxnFlags, env \in LockEnvs(S) :
         LET r == rpmtxnBegin(S, flags, env)
         IN Apply(r, Op("rpmtxnBegin", flags, r.ret))

\* handles are scoped: the caller ends the innermost one
TxnEnd ==
    /\ alive /\ Len(txns) > 0
    /\ Apply(rpmtxnEnd(S, Len(txns)),
             Op("rpmtxnEnd", txns[Len(txns)].flags, 0))

TsiInit ==
    /\ alive /\ Len(iters) < MaxIter
    /\ \E types \in TypeMasks :
         LET r == rpmtsiInit(S)
         IN Apply([r EXCEPT !.iters[Len(r.iters)].types = types],
                  Op("rpmtsiInit", types, Len(r.iters)))

\* the traversal of iterator i goes on with its type mask
TsiNext ==
    /\ alive
    /\ \E i \in 1..Len(iters) :
         LET it == iters[i]
             r == rpmtsiNext(S, i, it.types)
             te == r.ret
             g == IF it.clean
                  THEN [r.iters[i] EXCEPT
                          !.yielded = IF te # 0 THEN Append(@, te) ELSE @,
                          !.sawNull = @ \/ te = 0,
                          !.late = @ \/ (it.sawNull /\ te # 0)]
                  ELSE r.iters[i]
         IN Apply([r EXCEPT !.iters[i] = g],
                  Op("rpmtsiNext", <<i, it.oc>>, te))

TsiFree ==
    /\ alive
    /\ \E i \in 1..Len(iters) :
         Apply(rpmtsiFree(S, i), Op("rpmtsiFree", i, 0))

\* The solver adds an element (rpmtsAddInstallElement, rpmtsAddEraseElement):
\* it is appended to order and announced to the change callback.
AddElement ==
    /\ alive /\ Len(order) < MaxOrder
    /\ \E type \in ElementTypes :
         LET s1 == [S EXCEPT !.order = Append(@, type),
                             !.removedPackages =
                                 IF type = TR_REMOVED
                                 THEN @ \cup {Len(S.order) + 1} ELSE @,
                             !.iters = Dirty(@)]
             s2 == rpmtsNotifyChange(s1, RPMTS_EVENT_ADD, Len(s1.order))
         IN Apply(s2, Op("rpmtsAddElement", type, 0))

Empty ==
    /\ alive
    /\ LET r == rpmtsEmpty(S)
       IN Apply([r EXCEPT !.iters = IF order = <<>> THEN @ ELSE Dirty(@)],
                Op("rpmtsEmpty", <<order, pool>>, 0))

Pool ==
    /\ alive /\ (pool # 0 \/ pools < MaxPool)
    /\ LET r == rpmtsPool(S)
       IN Apply(r, Op("rpmtsPool", pool, r.ret))

SetChangeCallback ==
    /\ alive
    /\ \E cb \in BOOLEAN :
         Apply(rpmtsSetChangeCallback(S, cb),
               Op("rpmtsSetChangeCallback", cb, 0))

OpenDB ==
    /\ alive
    /\ \E mode \in DbModes, env \in OpenEnvs({Env0}) :
         LET r == rpmtsOpenDB(S, mode, env)
         IN Apply(r, Op("rpmtsOpenDB", <<mode, rdb, dbmode>>, r.ret))

CloseDB ==
    /\ alive
    /\ LET r == rpmtsCloseDB(S)
       IN Apply(r, Op("rpmtsCloseDB", {}, r.ret))

SetDBMode ==
    /\ alive
    /\ \E mode \in DbModes :
         LET r == rpmtsSetDBMode(S, mode)
         IN Apply(r, Op("rpmtsSetDBMode", <<mode, rdb, dbmode>>, r.ret))

InitDB ==
    /\ alive
    /\ \E env \in OkEnvs(LockEnvs(S)) :
         LET r == rpmtsInitDB(S, env)
         IN Apply(r, Op("rpmtsInitDB", env, r.ret))

RebuildDB ==
    /\ alive
    /\ \E env \in OkEnvs(LockEnvs(S)) :
         LET r == rpmtsRebuildDB(S, env)
         IN Apply(r, Op("rpmtsRebuildDB", env, r.ret))

VerifyDB ==
    /\ alive
    /\ \E env \in OkEnvs(LockEnvs(S)) :
         LET r == rpmtsVerifyDB(S, env)
         IN Apply(r, Op("rpmtsVerifyDB", env, r.ret))

InitIterator ==
    /\ alive
    /\ \E env \in OpenEnvs(LockEnvs(S)) :
         LET r == rpmtsInitIterator(S, lookup.tag, lookup.key, env)
         IN Apply(r, Op("rpmtsInitIterator", <<lookup.tag, lookup.key>>,
                        r.ret))

\* txn is a live handle of the caller, or null
ImportHeader ==
    /\ alive
    /\ \E txn \in 0..Len(txns), h \in BOOLEAN, env \in OkEnvs(OpenEnvs({Env0})) :
         LET r == rpmtsImportHeader(S, txn, h, env)
         IN Apply(r, Op("rpmtsImportHeader",
                        <<HandleFlags(S, txn), h>>, r.ret))

ImportPubkey ==
    /\ alive
    /\ \E pkt \in Packets, env \in DerefEnvs(S, KeyEnvs(LockEnvs(S))) :
         LET r == rpmtsImportPubkey(S, pkt, env)
         IN Apply(r, Op("rpmtsImportPubkey", <<pkt, env>>, r.ret))

TxnImportPubkey ==
    /\ alive
    /\ \E txn \in 0..Len(txns), pkt \in Packets,
          env \in DerefEnvs(S, KeyEnvs({Env0})) :
         LET r == rpmtxnImportPubkey(S, txn, pkt, env)
         IN Apply(r, Op("rpmtxnImportPubkey",
                        <<HandleFlags(S, txn), pkt, env>>, r.ret))

TxnDeletePubkey ==
    /\ alive
    /\ \E txn \in 0..Len(txns), key \in Packets, w \in BOOLEAN,
          env \in DerefEnvs(S, {Env0}) :
         LET r == rpmtxnDeletePubkey(S, txn, key, [env EXCEPT !.store = w])
         IN Apply(r, Op("rpmtxnDeletePubkey",
                        <<HandleFlags(S, txn), key>>, r.ret))

GetKeyring ==
    /\ alive
    /\ \E autoload \in BOOLEAN, env \in LockEnvs(S) :
         LET r == rpmtsGetKeyring(S, autoload, env)
         IN Apply(r, Op("rpmtsGetKeyring", <<autoload, env>>,
                        r.ret))

SetVSFlags ==
    /\ alive
    /\ \E vs \in VSFlagValues :
         Apply(rpmtsSetVSFlags(S, vs), Op("rpmtsSetVSFlags", vs, 0))

SetFlags ==
    /\ alive
    /\ \E f \in {{}, RPMTRANS_FLAG_TEST} :
         Apply(rpmtsSetFlags(S, f), Op("rpmtsSetFlags", f, 0))

SetRootDir ==
    /\ alive
    /\ \E dir \in Paths \cup {NULL} :
         LET r == rpmtsSetRootDir(S, dir)
         IN Apply(r, Op("rpmtsSetRootDir", dir, r.ret))

\* the values of SOURCE_DATE_EPOCH and the steps the callers ask for
Epochs == {0, 7, 1000000000}

Steps == {0, 1, 3}

GetTime ==
    /\ alive /\ Len(timeSteps) < MaxGetTime
    /\ \E step \in Steps, now \in WallClock :
         LET r == rpmtsGetTime(S, step, now)
         IN Apply([r EXCEPT !.timeSteps = Append(@, step)],
                  Op("rpmtsGetTime", step, r.ret))

\* the caller installs a keyring of its own, or none
SetKeyring ==
    /\ alive
    /\ \E kr \in {<<>>, <<{}>>} :
         LET r == rpmtsSetKeyring(S, kr)
         IN Apply(r, Op("rpmtsSetKeyring", kr, r.ret))

\* the values of the macro _keyring: the empty string when it is not defined
KeyringTypes == {"fs", "rpmdb", "", "other"}

\* the macro _keyring is defined anew
DefineKeyring ==
    /\ alive
    /\ \E t \in KeyringTypes :
         Apply([S EXCEPT !.krtype = t], Op("define _keyring", t, 0))

\* ---------------------------------------------------------- specifications
\* The transaction protocol: begin, end and the operations that open a
\* transaction of their own.
InitTxn ==
    /\ Created
    /\ reflink = NULL
    /\ measure = NULL
    /\ blocked \in {0, 1}
    /\ stored = {}
    /\ krtype = "rpmdb"

NextTxn ==
    \/ TxnBegin
    \/ TxnEnd
    \/ InitDB
    \/ RebuildDB
    \/ VerifyDB
    \/ ImportPubkey
    \/ GetKeyring
    \/ Free

SpecTxn == InitTxn /\ [][NextTxn]_vars

\* The reference count: the caller's references, handles and iterators.
InitRef ==
    /\ Created
    /\ reflink = NULL
    /\ measure = NULL
    /\ blocked = 0
    /\ stored = {}
    /\ krtype = "rpmdb"

NextRef ==
    \/ Link
    \/ Free
    \/ TxnBegin
    \/ TxnEnd
    \/ TsiInit
    \/ TsiFree
    \/ AddElement
    \/ Empty
    \/ VerifyDB

SpecRef == InitRef /\ [][NextRef]_vars

\* The database binding.
NextDb ==
    \/ OpenDB
    \/ CloseDB
    \/ SetDBMode
    \/ ImportHeader
    \/ InitIterator
    \/ TxnBegin
    \/ TxnEnd
    \/ Free

SpecDb == InitRef /\ [][NextDb]_vars

\* The members: order, removed packages, pool and change callback.
NextMem ==
    \/ AddElement
    \/ Empty
    \/ Pool
    \/ SetChangeCallback
    \/ Free

SpecMem == InitRef /\ [][NextMem]_vars

\* The element iterator.
NextIter ==
    \/ AddElement
    \/ Empty
    \/ TsiInit
    \/ TsiNext
    \/ TsiFree

SpecIter == InitRef /\ [][NextIter]_vars

\* Rebuilding the database of a set with and without members.
NextRebuild ==
    \/ AddElement
    \/ Empty
    \/ RebuildDB
    \/ TxnBegin
    \/ TxnEnd
    \/ SetVSFlags

SpecRebuild == InitRef /\ [][NextRebuild]_vars

\* The root directory and the lock path made from it.
NextRoot ==
    \/ SetRootDir
    \/ TxnBegin
    \/ TxnEnd
    \/ Link
    \/ Free

SpecRoot == InitRef /\ [][NextRoot]_vars

\* The time of the set, with and without SOURCE_DATE_EPOCH.
InitTime ==
    /\ \E sde \in {Unset} \cup {SetTo(e) : e \in Epochs}, now \in WallClock :
         rpmtsCreate(sde, now)
    /\ lookup = [tag |-> RPMDBI_PACKAGES, key |-> NullKey]
    /\ reflink = NULL
    /\ measure = NULL
    /\ blocked = 0
    /\ stored = {}
    /\ krtype = "rpmdb"

NextTime ==
    \/ GetTime
    \/ SetRootDir
    \/ Link
    \/ Free

SpecTime == InitTime /\ [][NextTime]_vars

\* The keys: import and delete under a handle of the caller.
NextKey ==
    \/ TxnBegin
    \/ TxnEnd
    \/ TxnImportPubkey
    \/ TxnDeletePubkey
    \/ SetFlags
    \/ SetVSFlags

SpecKey == InitRef /\ [][NextKey]_vars

\* The loading of the keyring.
NextLoad ==
    \/ SetVSFlags
    \/ SetKeyring
    \/ GetKeyring
    \/ InitIterator
    \/ TxnBegin
    \/ TxnEnd
    \/ TxnDeletePubkey

SpecLoad == InitRef /\ [][NextLoad]_vars

\* The choice of the keystore.
InitStore ==
    /\ Created
    /\ reflink = NULL
    /\ measure = NULL
    /\ blocked = 0
    /\ stored = {}
    /\ krtype \in KeyringTypes

NextStore ==
    \/ DefineKeyring
    \/ GetKeyring
    \/ SetKeyring
    \/ TxnBegin
    \/ TxnEnd
    \/ Free

SpecStore == InitStore /\ [][NextStore]_vars

\* The iterator over the database and the key it is given.
InitLabel ==
    /\ \E now \in {Clock} : rpmtsCreate(Unset, now)
    /\ lookup \in [tag : {RPMDBI_LABEL, RPMDBI_NAME}, key : Keys]
    /\ reflink = NULL
    /\ measure = NULL
    /\ blocked = 0
    /\ stored = {}
    /\ krtype = "rpmdb"

NextLabel ==
    \/ InitIterator
    \/ CloseDB

SpecLabel == InitLabel /\ [][NextLabel]_vars

\* ---------------------------------------------------------- reflink plugin
\* src/plugins/reflink.cc. The sizes are scaled: a page of PageSize bytes,
\* a copy buffer of BUFFER_SIZE bytes, digests of KeySize bytes.
RPMRC_OK == "RPMRC_OK"

RPMRC_FAIL == "RPMRC_FAIL"

RPMRC_PLUGIN_CONTENTS == "RPMRC_PLUGIN_CONTENTS"

PageSize == 2

BUFFER_SIZE == 2

KeySize == 1

\* the variables of the transaction set, which no hook of a plugin touches
tsvars == <<alive, nrefs, rdb, dbmode, keyring, keystore, vsflags, transFlags,
            rootDir, lockPath, lock, change, order, removedPackages, pool,
            txns, iters, blocked, stored, krtype, overrideTime, tid, epoch,
            timeSteps, lookup, callerRefs, pools, destroyed>>

\* what a hook hands back: the plugin's data, its result, the calls it made
Out(st, rc, calls) == [st |-> st, ret |-> rc, calls |-> calls]

Sys(name, arg) == [call |-> name, arg |-> arg]

\* std::map and std::unordered_map: one value for a key
MapPut(m, k, v) == {e \in m : e.key # k} \cup {[key |-> k, val |-> v]}

MapHas(m, k) == \E e \in m : e.key = k

MapGet(m, k) == (CHOOSE e \in m : e.key = k).val

\* the entries of the digest table, read one by one; the read of entry
\* te.at falls short when te.fail says so
RECURSIVE ReadTable(_, _, _)
ReadTable(st, te, i) ==
    IF i > st.keys
    THEN Out(st, RPMRC_OK, <<>>)
    ELSE IF te.fail = "readTable" /\ te.at = i
    THEN Out(st, RPMRC_FAIL, <<Sys("rpmlog", "unable to read table")>>)
    ELSE ReadTable([st EXCEPT !.table = MapPut(@, te.entries[i][1],
                                                te.entries[i][2])],
                   te, i + 1)

reflink_psm_pre(st0, te) ==
    LET st == [st0 EXCEPT !.fd = te.fd]
        \* Fseek(state->fd, current, SEEK_SET)
        back == IF ~te.back
                THEN [ret |-> RPMRC_FAIL,
                      calls |-> <<Sys("rpmlog", "unable to seek back to original location")>>]
                ELSE [ret |-> RPMRC_OK, calls |-> <<>>]
    IN
    IF st.fd = 0
    THEN Out(st, RPMRC_OK, <<Sys("rpmlog", "fd = 0, no install")>>)
    ELSE IF te.fail = "seekMagic"
    THEN Out(st, RPMRC_FAIL,
             <<Sys("rpmlog", "failed to seek for magic")>>
             \o back.calls)
    ELSE IF te.fail = "readTrailer"
    THEN Out(st, RPMRC_FAIL,
             <<Sys("rpmlog", "unable to read trailer")>>
             \o back.calls)
    ELSE IF ~te.magic
    THEN Out(st, back.ret,
             <<Sys("rpmlog", "not transcoded")>> \o back.calls)
    ELSE
    LET st1 == [st EXCEPT !.transcoded = 1, !.files = te.files]
        isT == <<Sys("rpmlog", "*is* transcoded")>>
    IN
    IF te.fail = "seekTable"
    THEN Out(st1, RPMRC_FAIL,
             isT \o <<Sys("rpmlog", "unable to seek to table_start")>>)
    ELSE IF te.fail = "readKeys"
    THEN Out(st1, RPMRC_FAIL,
             isT \o <<Sys("rpmlog", "unable to read number of keys")>>)
    ELSE IF te.fail = "readKeysize"
    THEN Out([st1 EXCEPT !.keys = te.keys], RPMRC_FAIL,
             isT \o <<Sys("rpmlog", "unable to read keysize")>>)
    ELSE
    LET st2 == [st1 EXCEPT !.keys = te.keys, !.keysize = te.keysize]
        r == IF st2.keys = 0 \/ st2.keysize = 0
             THEN Out([st2 EXCEPT !.table = {}], RPMRC_OK, <<>>)
             ELSE ReadTable(st2, te, 1)
    IN
    IF r.ret # RPMRC_OK
    THEN Out(r.st, RPMRC_FAIL, isT \o r.calls)
    ELSE Out(r.st, back.ret, isT \o back.calls)

\* the copy of the bits when the clone is refused: `n` is the number of
\* the chunk, and chunk env.shortRead is read short, env.shortWrite
\* written short
RECURSIVE CopyBits(_, _, _, _)
CopyBits(left, n, env, calls) ==
    IF left = 0
    THEN [ok |-> TRUE, calls |-> calls]
    ELSE
    LET len == IF left > BUFFER_SIZE THEN BUFFER_SIZE ELSE left
    IN
    IF env.shortRead = n
    THEN [ok |-> FALSE,
          calls |-> calls \o <<Sys("Fread", len), Sys("close", "dst"),
                               Sys("rpmlog", "short read on copying bits")>>]
    ELSE IF env.shortWrite = n
    THEN [ok |-> FALSE,
          calls |-> calls \o <<Sys("Fread", len), Sys("write", len),
                               Sys("close", "dst"),
                               Sys("rpmlog", "short write on copying bits")>>]
    ELSE CopyBits(left - len, n + 1, env,
                  calls \o <<Sys("Fread", len), Sys("write", len)>>)

reflink_fsm_file_install(st, fi, op, env) ==
    IF st.table = {}
    THEN Out(st, RPMRC_OK, <<>>)
    ELSE IF op = "FA_TOUCH"
    THEN Out(st, RPMRC_OK, <<>>)
    ELSE IF fi.mode = "S_IFREG" /\ ~fi.ghost
    THEN
      IF MapHas(st.inodeIndexes, fi.inode)
      THEN LET lk == <<Sys("link", <<MapGet(st.inodeIndexes, fi.inode),
                                     fi.fn>>)>>
           IN IF ~env.link
              THEN Out(st, RPMRC_FAIL,
                       lk \o <<Sys("rpmlog", "Unable to hard link")>>)
              ELSE Out(st, RPMRC_PLUGIN_CONTENTS, lk)
      ELSE
      LET st1 == IF fi.nlink > 1
                 THEN [st EXCEPT !.inodeIndexes = MapPut(@, fi.inode, fi.fn)]
                 ELSE st
          opn == <<Sys("openat", fi.fn)>>
          key == fi.digest
      IN
      IF ~env.open
      THEN Out(st1, RPMRC_FAIL,
               opn \o <<Sys("rpmlog", "Unable to open for writing")>>)
      ELSE IF fi.size = 0
      THEN Out(st1, RPMRC_PLUGIN_CONTENTS, opn \o <<Sys("close", "dst")>>)
      ELSE IF ~env.fileno
      THEN Out(st1, RPMRC_FAIL,
               opn \o <<Sys("close", "dst"),
                        Sys("rpmlog", "src fd lookup failed")>>)
      ELSE IF ~MapHas(st1.table, key)
      THEN Out(st1, RPMRC_FAIL,
               opn \o <<Sys("close", "dst"),
                        Sys("rpmlog", "digest not found")>>)
      ELSE
      LET fbs == st1.fundamental_block_size
          \* the size rounded up to the fundamental block size
          src_length == (fi.size \div fbs) * fbs
                        + (IF (fi.size % fbs) > 0 THEN fbs ELSE 0)
          clone == opn \o <<Sys("ioctl", [src_length |-> src_length,
                                          src_offset |-> MapGet(st1.table, key),
                                          dest_offset |-> 0])>>
      IN
      IF ~env.clone
      THEN IF ~env.seek
           THEN Out(st1, RPMRC_FAIL,
                    clone \o <<Sys("Fseek", MapGet(st1.table, key)),
                               Sys("close", "dst"),
                               Sys("rpmlog", "unable to seek on copying bits")>>)
           ELSE LET c == CopyBits(fi.size, 1, env,
                                  clone \o <<Sys("Fseek",
                                                 MapGet(st1.table, key))>>)
                IN IF c.ok
                   THEN Out(st1, RPMRC_PLUGIN_CONTENTS,
                            c.calls \o <<Sys("close", "dst")>>)
                   ELSE Out(st1, RPMRC_FAIL, c.calls)
      ELSE IF ~env.truncate
      THEN Out(st1, RPMRC_FAIL,
               clone \o <<Sys("ftruncate", fi.size),
                          Sys("rpmlog", "Unable to truncate")>>)
      ELSE Out(st1, RPMRC_PLUGIN_CONTENTS,
               clone \o <<Sys("ftruncate", fi.size), Sys("close", "dst")>>)
    ELSE Out(st, RPMRC_OK, <<>>)

reflink_fsm_file_archive_reader(st, files) ==
    IF st.transcoded # 0
    THEN Out(st, RPMRC_PLUGIN_CONTENTS, <<Sys("rpmfilesIter", files)>>)
    ELSE Out(st, RPMRC_OK, <<>>)

\* The packages: what psm_pre finds in the file of the element. `fail` is
\* the step of the read that fails, `back` the seek back to where it was.
Digests == {"x", "y"}

Offsets == {1, 2}

Te0 == [fd |-> 3, fail |-> "none", at |-> 0, back |-> TRUE, magic |-> FALSE,
        keys |-> 0, keysize |-> 0, entries |-> <<>>, files |-> "files"]

Transcoded ==
    {[Te0 EXCEPT !.magic = TRUE, !.keys = k, !.keysize = z, !.entries = es] :
        k \in 0..MaxKeys, z \in {0, KeySize},
        es \in UNION {[1..n -> Digests \X Offsets] : n \in 0..MaxKeys}}

Tes ==
    {[Te0 EXCEPT !.fd = 0]}
    \cup {[Te0 EXCEPT !.fail = f, !.back = b] :
            f \in {"none", "seekMagic", "readTrailer"}, b \in BOOLEAN}
    \cup {[t EXCEPT !.fail = f, !.back = b] :
            t \in {t \in Transcoded : Len(t.entries) = t.keys},
            f \in {"none", "seekTable", "readKeys", "readKeysize"},
            b \in BOOLEAN}
    \cup UNION {{[t EXCEPT !.fail = "readTable", !.at = i] : i \in 1..t.keys} :
                   t \in {t \in Transcoded : Len(t.entries) = t.keys
                                              /\ t.keysize # 0}}

\* The files of a package: a file of two chunks and its hard link, a file of
\* one byte, an empty file, a ghost and a directory.
File0 == [mode |-> "S_IFREG", ghost |-> FALSE, inode |-> 1, nlink |-> 1,
          size |-> 0, digest |-> "x", fn |-> "a"]

Files ==
    {[File0 EXCEPT !.nlink = 2, !.size = MaxSize],
     [File0 EXCEPT !.nlink = 2, !.size = MaxSize, !.fn = "b"],
     [File0 EXCEPT !.inode = 2, !.size = 1, !.digest = "y", !.fn = "c"],
     [File0 EXCEPT !.inode = 3, !.fn = "d"],
     [File0 EXCEPT !.inode = 4, !.ghost = TRUE, !.fn = "e"],
     [File0 EXCEPT !.inode = 5, !.mode = "S_IFDIR", !.fn = "f"]}

FsmOps == {"FA_CREATE", "FA_TOUCH"}

\* The outcomes of the calls of fsm_file_install into the system: all
\* succeed, or one fails; the copy is tried when the clone is refused.
Io0 == [link |-> TRUE, open |-> TRUE, fileno |-> TRUE, clone |-> TRUE,
        seek |-> TRUE, truncate |-> TRUE, shortRead |-> 0, shortWrite |-> 0]

IoEnvs(st, fi, op) ==
    IF st.table = {} \/ op = "FA_TOUCH" \/ fi.mode # "S_IFREG" \/ fi.ghost
    THEN {Io0}
    ELSE {Io0}
         \cup {[Io0 EXCEPT ![f] = FALSE] :
                 f \in {"link", "open", "fileno", "clone", "truncate"}}
         \cup {[Io0 EXCEPT !.clone = FALSE, !.seek = FALSE]}
         \cup {[Io0 EXCEPT !.clone = FALSE, !.shortRead = n] :
                 n \in 1..((MaxSize + BUFFER_SIZE - 1) \div BUFFER_SIZE)}
         \cup {[Io0 EXCEPT !.clone = FALSE, !.shortWrite = n] :
                 n \in 1..((MaxSize + BUFFER_SIZE - 1) \div BUFFER_SIZE)}

ReflinkPsmPre ==
    /\ reflink.psm = "idle"
    /\ \E te \in Tes :
         LET r == reflink_psm_pre(reflink, te)
         IN /\ reflink' = [r.st EXCEPT !.psm = IF r.ret = RPMRC_OK
                                               THEN "running" ELSE "failed"]
            /\ trace' = r.calls
            /\ last' = Op("reflink_psm_pre", te, r.ret)
    /\ UNCHANGED <<tsvars, measure>>

\* reflink_psm_post, which the runner calls whatever psm_pre returned
ReflinkPsmPost ==
    /\ reflink.psm # "idle"
    /\ reflink' = [reflink EXCEPT !.files = NULL, !.table = {},
                                  !.inodeIndexes = {}, !.transcoded = 0,
                                  !.psm = "idle"]
    /\ trace' = <<Sys("rpmfilesFree", reflink.files)>>
    /\ last' = Op("reflink_psm_post", reflink.psm, RPMRC_OK)
    /\ UNCHANGED <<tsvars, measure>>

ReflinkFsmFileArchiveReader ==
    /\ reflink.psm = "running"
    /\ LET r == reflink_fsm_file_archive_reader(reflink, reflink.files)
       IN /\ reflink' = r.st
          /\ trace' = r.calls
          /\ last' = Op("reflink_fsm_file_archive_reader", reflink.files,
                        r.ret)
    /\ UNCHANGED <<tsvars, measure>>

ReflinkFsmFileInstall ==
    /\ reflink.psm = "running"
    /\ \E fi \in Files, op \in FsmOps :
         \E env \in IoEnvs(reflink, fi, op) :
           LET r == reflink_fsm_file_install(reflink, fi, op, env)
           IN /\ reflink' = r.st
              /\ trace' = r.calls
              /\ last' = Op("reflink_fsm_file_install", <<fi, op>>, r.ret)
    /\ UNCHANGED <<tsvars, measure>>

\* reflink_init: the data of the plugin as its constructor leaves it. `psm`
\* is the position of the runner of the element, which calls psm_pre, the
\* hooks of the files when psm_pre succeeded, and psm_post.
InitReflink ==
    /\ \E now \in {Clock} : rpmtsCreate(Unset, now)
    /\ lookup = [tag |-> RPMDBI_PACKAGES, key |-> NullKey]
    /\ blocked = 0
    /\ stored = {}
    /\ krtype = "rpmdb"
    /\ reflink = [fundamental_block_size |-> PageSize, keys |-> 0,
                  keysize |-> 0, table |-> {}, fd |-> 0, files |-> NULL,
                  inodeIndexes |-> {}, transcoded |-> 0, psm |-> "idle"]
    /\ measure = NULL

NextReflink ==
    \/ ReflinkPsmPre
    \/ ReflinkPsmPost
    \/ ReflinkFsmFileArchiveReader
    \/ ReflinkFsmFileInstall

SpecReflink == InitReflink /\ [][NextReflink]_vars

\* ---------------------------------------------------------- measure plugin
\* src/plugins/measure.c. A string is a sequence of pieces, a number in it
\* one piece for each of its characters; a timespec is a number of
\* milliseconds.

\* the characters of a number as %d, %u and %ld write it
RECURSIVE Fmt(_)
Fmt(n) ==
    IF n < 0 THEN <<"-">> \o Fmt(0 - n)
    ELSE IF n < 10
    THEN <<(<<"0", "1", "2", "3", "4", "5", "6", "7", "8", "9">>)[n + 1]>>
    ELSE Fmt(n \div 10) \o Fmt(n % 10)

\* rasprintf(&key, format, arg) with one conversion in the format
RECURSIVE Sprintf(_, _)
Sprintf(format, arg) ==
    IF format = <<>> THEN <<>>
    ELSE (IF Head(format) \in {"%s", "%u", "%d", "%ld"}
          THEN arg ELSE <<Head(format)>>)
         \o Sprintf(Tail(format), arg)

\* The outcomes of the calls of a hook below the plugin: `fail` is the call
\* that fails, for the key or the value `at`; `now` is what the clock reads.
NoFail == [step |-> "none", at |-> <<>>]

\* `formatted` is <<>> for NULL, <<prefix>> otherwise; the macro is pushed
\* on the global macro context, which is not the plugin's
push(format, value, formatted, env) ==
    IF formatted # <<>> /\ env.fail = [step |-> "rasprintf", at |-> format]
    THEN Out(NULL, RPMRC_FAIL,
             <<Sys("rpmlog", "Failed to allocate formatted key")>>)
    ELSE
    LET key == IF formatted = <<>> THEN format
               ELSE Sprintf(format, formatted[1])
    IN
    IF env.fail = [step |-> "rpmPushMacro", at |-> format]
    THEN Out(NULL, RPMRC_FAIL, <<Sys("rpmPushMacro", <<key, value>>),
                                 Sys("rpmlog", "Failed to set")>>)
    ELSE Out(NULL, RPMRC_OK, <<Sys("rpmPushMacro", <<key, value>>)>>)

\* measure_psm_post counting the run before it has published it
measure_psm_post_countFirst(st, te, env) ==
    IF env.fail.step = "clock_gettime"
    THEN Out(st, RPMRC_FAIL, <<Sys("rpmlog", "Failed to get psm end time")>>)
    ELSE IF env.fail = [step |-> "rasprintf", at |-> <<"prefix">>]
    THEN Out(st, RPMRC_FAIL, <<Sys("rpmlog", "Failed to allocate prefix")>>)
    ELSE IF env.fail.step = "diff_ms"
    THEN Out(st, RPMRC_FAIL,
             <<Sys("rpmlog", "Failed to allocate formatted ms")>>)
    ELSE
    Then([st EXCEPT !.psm_count = @ + 1], LAMBDA st1 :
    Then(<<Sprintf(<<"_measure_plugin_package_", "%u">>, Fmt(st.psm_count))>>,
         LAMBDA prefix :
    Then(push(<<"%s", "_nevra">>, te.nevra, prefix, env),
         LAMBDA p1 :
      IF p1.ret # RPMRC_OK
      THEN Out(st1, RPMRC_FAIL, p1.calls)
      ELSE
    Then(push(<<"%s", "_compressor">>, te.compressor, prefix, env),
         LAMBDA p2 :
      IF p2.ret # RPMRC_OK
      THEN Out(st1, RPMRC_FAIL,
               p1.calls \o p2.calls)
      ELSE
    Then(push(<<"%s", "_offset">>,
              Sprintf(<<"%ld">>, Fmt(st.psm_start - st.plugin_start)),
              prefix, env),
         LAMBDA p3 :
      IF p3.ret # RPMRC_OK
      THEN Out(st1, RPMRC_FAIL,
               p1.calls \o p2.calls \o p3.calls)
      ELSE
    Then(push(<<"%s", "_ms">>,
              Sprintf(<<"%ld">>, Fmt(env.now - st.psm_start)), prefix, env),
         LAMBDA p4 :
      IF p4.ret # RPMRC_OK
      THEN Out(st1, RPMRC_FAIL,
               p1.calls \o p2.calls \o p3.calls \o p4.calls)
      ELSE Out(st1, RPMRC_OK,
               p1.calls \o p2.calls \o p3.calls \o p4.calls)))))))

\* rc stays RPMRC_FAIL, and psm_count what it was, up to the last push
measure_psm_post(st, te, env) ==
    IF env.fail.step = "clock_gettime"
    THEN Out(st, RPMRC_FAIL, <<Sys("rpmlog", "Failed to get psm end time")>>)
    ELSE IF env.fail = [step |-> "rasprintf", at |-> <<"prefix">>]
    THEN Out(st, RPMRC_FAIL, <<Sys("rpmlog", "Failed to allocate prefix")>>)
    ELSE IF env.fail.step = "diff_ms"
    THEN Out(st, RPMRC_FAIL,
             <<Sys("rpmlog", "Failed to allocate formatted ms")>>)
    ELSE
    Then(<<Sprintf(<<"_measure_plugin_package_", "%u">>, Fmt(st.psm_count))>>,
         LAMBDA prefix :
    Then(push(<<"%s", "_nevra">>, te.nevra, prefix, env),
         LAMBDA p1 :
      IF p1.ret # RPMRC_OK
      THEN Out(st, RPMRC_FAIL, p1.calls)
      ELSE
    Then(push(<<"%s", "_compressor">>, te.compressor, prefix, env),
         LAMBDA p2 :
      IF p2.ret # RPMRC_OK
      THEN Out(st, RPMRC_FAIL, p1.calls \o p2.calls)
      ELSE
    Then(push(<<"%s", "_offset">>,
              Sprintf(<<"%ld">>, Fmt(st.psm_start - st.plugin_start)),
              prefix, env),
         LAMBDA p3 :
      IF p3.ret # RPMRC_OK
      THEN Out(st, RPMRC_FAIL,
               p1.calls \o p2.calls \o p3.calls)
      ELSE
    Then(push(<<"%s", "_ms">>,
              Sprintf(<<"%ld">>, Fmt(env.now - st.psm_start)), prefix, env),
         LAMBDA p4 :
      IF p4.ret # RPMRC_OK
      THEN Out(st, RPMRC_FAIL,
               p1.calls \o p2.calls \o p3.calls \o p4.calls)
      ELSE Out([st EXCEPT !.psm_count = @ + 1], RPMRC_OK,
               p1.calls \o p2.calls \o p3.calls \o p4.calls))))))

measure_tsm_post(st, env) ==
    IF env.fail = [step |-> "rasprintf", at |-> <<"psm_count">>]
    THEN Out(st, RPMRC_FAIL,
             <<Sys("rpmlog", "Failed to allocate formatted psm_count")>>)
    ELSE IF env.fail = [step |-> "rasprintf", at |-> <<"scriptlet_count">>]
    THEN Out(st, RPMRC_FAIL,
             <<Sys("rpmlog", "Failed to allocate formatted scriptlet_count")>>)
    ELSE
    Then(push(<<"_measure_plugin_psm_count">>,
              Sprintf(<<"%d">>, Fmt(st.psm_count)), <<>>, env),
         LAMBDA p1 :
      IF p1.ret # RPMRC_OK
      THEN Out(st, RPMRC_FAIL, p1.calls)
      ELSE
    Then(push(<<"_measure_plugin_scriptlet_count">>,
              Sprintf(<<"%d">>, Fmt(st.scriptlet_count)), <<>>, env),
         LAMBDA p2 :
      Out(st, p2.ret, p1.calls \o p2.calls)))

measure_scriptlet_post(st, s_name, env) ==
    IF env.fail.step = "clock_gettime"
    THEN Out(st, RPMRC_FAIL, <<Sys("rpmlog", "Failed to get end time")>>)
    ELSE IF env.fail = [step |-> "rasprintf", at |-> <<"prefix">>]
    THEN Out(st, RPMRC_FAIL,
             <<Sys("rpmlog", "Failed to allocate formatted prefix")>>)
    ELSE IF env.fail.step = "diff_ms"
    THEN Out(st, RPMRC_FAIL,
             <<Sys("rpmlog", "Failed to allocate formatted ms")>>)
    ELSE
    Then(<<Sprintf(<<"_measure_plugin_scriptlet_", "%d">>,
                   Fmt(st.scriptlet_count))>>,
         LAMBDA prefix :
    Then(push(<<"%s", "_name">>, s_name, prefix, env),
         LAMBDA p1 :
      IF p1.ret # RPMRC_OK
      THEN Out(st, RPMRC_FAIL, p1.calls)
      ELSE
    Then(push(<<"%s", "_offset">>,
              Sprintf(<<"%ld">>, Fmt(st.scriptlet_start - st.plugin_start)),
              prefix, env),
         LAMBDA p2 :
      IF p2.ret # RPMRC_OK
      THEN Out(st, RPMRC_FAIL,
               p1.calls \o p2.calls)
      ELSE
    Then(push(<<"%s", "_ms">>,
              Sprintf(<<"%ld">>, Fmt(env.now - st.scriptlet_start)),
              prefix, env),
         LAMBDA p3 :
      IF p3.ret # RPMRC_OK
      THEN Out(st, RPMRC_FAIL,
               p1.calls \o p2.calls \o p3.calls)
      ELSE Out([st EXCEPT !.scriptlet_count = @ + 1],
               RPMRC_OK, p1.calls \o p2.calls \o p3.calls)))))

\* The elements and the scriptlets the runner reports.
Tes3 == {[nevra |-> <<"a-1-1.noarch">>, compressor |-> <<"zstd">>]}

ScriptletNames == {<<"%post(a-1-1.noarch)">>}

\* what the monotonic clock may read next
Nows == {measure.clock} \cup {t \in {measure.clock + 1} : t <= MaxClock}

\* a hook succeeds in all its calls, or one of them fails
Fails(formats) ==
    {NoFail, [step |-> "clock_gettime", at |-> <<>>],
     [step |-> "rasprintf", at |-> <<"prefix">>],
     [step |-> "diff_ms", at |-> <<"offset">>],
     [step |-> "diff_ms", at |-> <<"duration">>]}
    \cup {[step |-> s, at |-> f] :
            s \in {"rasprintf", "rpmPushMacro"}, f \in formats}

\* measure_psm_pre
MeasurePsmPre ==
    /\ \E ok \in BOOLEAN, now \in Nows :
         /\ measure' = IF ok
                       THEN [measure EXCEPT !.psm_start = now, !.clock = now]
                       ELSE measure
         /\ trace' = IF ok THEN <<>>
                     ELSE <<Sys("rpmlog", "Failed to get psm_start time")>>
         /\ last' = Op("measure_psm_pre", ok,
                       IF ok THEN RPMRC_OK ELSE RPMRC_FAIL)
    /\ UNCHANGED <<tsvars, reflink>>

\* `posts` counts the calls of psm_post that have returned RPMRC_OK
MeasurePsmPost ==
    /\ measure.psm_count < MaxPsm
    /\ \E te \in Tes3, now \in Nows,
          fail \in Fails({<<"%s", "_nevra">>, <<"%s", "_compressor">>,
                          <<"%s", "_offset">>, <<"%s", "_ms">>}) :
         LET r == measure_psm_post(measure, te, [fail |-> fail, now |-> now])
         IN /\ measure' = [r.st EXCEPT
                             !.clock = IF fail.step = "clock_gettime"
                                       THEN @ ELSE now,
                             !.posts = IF r.ret = RPMRC_OK THEN @ + 1 ELSE @]
            /\ trace' = r.calls
            /\ last' = Op("measure_psm_post", <<te, fail>>, r.ret)
    /\ UNCHANGED <<tsvars, reflink>>

MeasureTsmPost ==
    /\ \E fail \in {NoFail,
                    [step |-> "rasprintf", at |-> <<"psm_count">>],
                    [step |-> "rasprintf", at |-> <<"scriptlet_count">>],
                    [step |-> "rpmPushMacro",
                     at |-> <<"_measure_plugin_psm_count">>],
                    [step |-> "rpmPushMacro",
                     at |-> <<"_measure_plugin_scriptlet_count">>]} :
         LET r == measure_tsm_post(measure, [fail |-> fail, now |-> 0])
         IN /\ measure' = r.st
            /\ trace' = r.calls
            /\ last' = Op("measure_tsm_post", fail, r.ret)
    /\ UNCHANGED <<tsvars, reflink>>

\* measure_scriptlet_pre
MeasureScriptletPre ==
    /\ \E ok \in BOOLEAN, now \in Nows :
         /\ measure' = IF ok
                       THEN [measure EXCEPT !.scriptlet_start = now,
                                            !.clock = now]
                       ELSE measure
         /\ trace' = IF ok THEN <<>>
                     ELSE <<Sys("rpmlog",
                                "Failed to get scriptlet_start time")>>
         /\ last' = Op("measure_scriptlet_pre", ok,
                       IF ok THEN RPMRC_OK ELSE RPMRC_FAIL)
    /\ UNCHANGED <<tsvars, reflink>>

MeasureScriptletPost ==
    /\ measure.scriptlet_count < MaxScriptlet
    /\ \E s_name \in ScriptletNames, now \in Nows,
          fail \in Fails({<<"%s", "_name">>, <<"%s", "_offset">>,
                          <<"%s", "_ms">>}) :
         LET r == measure_scriptlet_post(measure, s_name,
                                         [fail |-> fail, now |-> now])
         IN /\ measure' = [r.st EXCEPT
                             !.clock = IF fail.step = "clock_gettime"
                                       THEN @ ELSE now]
            /\ trace' = r.calls
            /\ last' = Op("measure_scriptlet_post", <<s_name, fail>>, r.ret)
    /\ UNCHANGED <<tsvars, reflink>>

\* measure_init: the data of the plugin when the clock could be read, and
\* the clock after it
InitMeasure ==
    /\ \E now \in {Clock} : rpmtsCreate(Unset, now)
    /\ lookup = [tag |-> RPMDBI_PACKAGES, key |-> NullKey]
    /\ blocked = 0
    /\ stored = {}
    /\ krtype = "rpmdb"
    /\ reflink = NULL
    /\ measure = [psm_count |-> 0, scriptlet_count |-> 0, plugin_start |-> 1,
                  psm_start |-> 0, scriptlet_start |-> 0, clock |-> 1,
                  posts |-> 0]

NextMeasure ==
    \/ MeasurePsmPre
    \/ MeasurePsmPost
    \/ MeasureTsmPost
    \/ MeasureScriptletPre
    \/ MeasureScriptletPost

SpecMeasure == InitMeasure /\ [][NextMeasure]_vars

\* ------------------------------------------------------------------ claims
Writers(tx) == Cardinality({i \in 1..Len(tx) : (tx[i].flags \cap RPMTXN_WRITE) # {}})

HasWriter(tx) == Writers(tx) > 0

TxnOps == {"rpmtsInitDB", "rpmtsRebuildDB", "rpmtsVerifyDB",
           "rpmtsImportPubkey", "rpmtsGetKeyring"}

\* C1, in every state and at every call made inside an operation: signals
\* are blocked while a WRITE handle is live, and the blocking depth is that
\* of the thread before its transactions plus one per live WRITE handle.
C1_Blocked ==
    /\ HasWriter(txns) => SignalsBlocked(blocked)
    /\ \A k \in 1..Len(trace) :
         /\ HasWriter(trace[k].txns) => SignalsBlocked(trace[k].blocked)
         /\ trace[k].blocked - Writers(trace[k].txns)
              = blocked - Writers(txns)

\* C1, for every step: a begin or end of a READ transaction leaves the
\* blocking as it is, and the end of a WRITE transaction restores the
\* blocking the thread had before its begin.
C1_Step ==
    /\ blocked' - Writers(txns') = blocked - Writers(txns)
    /\ last'.op \in {"rpmtxnBegin", "rpmtxnEnd"} /\ last'.arg = RPMTXN_READ
         => blocked' = blocked
    /\ last'.op \in TxnOps => blocked' = blocked

\* C1: for every WRITE transaction the signals are blocked from its begin
\* to its end and the end restores the block state of before the begin; a
\* READ transaction never changes the block state, also not the one that
\* loadKeyring runs inside a WRITE transaction.
C1_SignalsBlockedWhileWriting == []C1_Blocked /\ [][C1_Step]_vars

\* C1 witness: rpmtsImportPubkey has loaded the keyring under a READ
\* transaction nested in its WRITE transaction, and has ended both.
C1_Witness ==
    /\ last.op = "rpmtsImportPubkey"
    /\ \E k \in 1..Len(trace) :
         /\ trace[k].call = "load_keys"
         /\ Len(trace[k].txns) >= 2
         /\ trace[k].blocked = blocked + 1
    /\ blocked = 1

\* The lock mode a handle asks for.
LockMode(flags) ==
    IF (flags \cap RPMTXN_WRITE) # {} THEN RPMLOCK_WRITE ELSE RPMLOCK_READ

C3_Count ==
    /\ alive => nrefs = callerRefs + Len(txns) + Len(iters)
    /\ alive => nrefs > 0
    /\ ~alive => callerRefs = 0 /\ txns = <<>> /\ iters = <<>>

\* C3, for every step: the set is destroyed exactly by a free that finds
\* the last reference.
C3_Step ==
    (alive /\ ~alive') <=>
        (alive /\ nrefs = 1
           /\ last'.op \in {"rpmtsFree", "rpmtxnEnd", "rpmtsiFree"})

\* C3: ref_count counts the caller's references, the live handles and the
\* live iterators, and the set is destroyed exactly when a free brings it to
\* zero, never under a live handle or iterator.
C3_RefCount == []C3_Count /\ [][C3_Step]_vars

\* C3 witness: the caller has freed its last reference, and the set lives
\* on through a handle and an iterator.
C3_Witness ==
    /\ alive /\ callerRefs = 0
    /\ Len(txns) = 1 /\ Len(iters) = 1
    /\ nrefs = 2

\* C4: a rpmtxnBegin that returns null has created no handle, taken no
\* reference and blocked no signal, for READ and for WRITE.
C4_Step ==
    last'.op = "rpmtxnBegin" /\ last'.rc = 0
        => /\ txns' = txns
           /\ nrefs' = nrefs
           /\ blocked' = blocked
           /\ lock'.held = lock.held

C4_FailedBeginChangesNothing == [][C4_Step]_vars

\* C4 witness: a WRITE begin has failed on a lock object that exists.
C4_Witness ==
    /\ last.op = "rpmtxnBegin" /\ last.rc = 0
    /\ last.arg = RPMTXN_WRITE
    /\ lock.exists

\* The operations that change the database or the keystore.
Mutating == {"rpmdbAdd", "import_key", "delete_key", "rpmdbInit",
             "rpmdbRebuild"}

\* C5: every mutating database or keystore operation is made while a WRITE
\* transaction is live, and never with a handle begun with READ.
C5_MutationUnderWrite ==
    \A k \in 1..Len(trace) :
        trace[k].call \in Mutating
            => /\ HasWriter(trace[k].txns)
               /\ trace[k].handle # RPMTXN_READ

ProgramVars == <<alive, nrefs, rdb, dbmode, keyring, keystore, vsflags,
                 transFlags, rootDir, lockPath, lock, change, order,
                 removedPackages, pool, txns, iters, blocked, stored, krtype,
                 overrideTime, tid>>

\* C6, in every state after a rpmtsOpenDB(mode): when it returned 0 the
\* handle is open in that mode, and when the handle was open in that mode
\* it returned 0 and neither closed nor opened a database.
C6_Opened ==
    last.op = "rpmtsOpenDB"
        => /\ last.rc = 0 => rdb # NULL /\ rdb = last.arg[1]
                               /\ dbmode = last.arg[1]
           /\ last.arg[2] # NULL /\ last.arg[3] = last.arg[1]
                => last.rc = 0 /\ trace = <<>>

C6_Step ==
    last'.op = "rpmtsOpenDB" /\ rdb # NULL /\ dbmode = last'.arg[1]
        => UNCHANGED ProgramVars

\* C6: after rpmtsOpenDB(S, m) returns 0 the handle is non-null and db_mode
\* is m, and on a handle already open with db_mode = m the call returns 0
\* and changes nothing.
C6_OpenDB == []C6_Opened /\ [][C6_Step]_vars

\* C6 witness: rpmtsOpenDB has been called for the mode the open handle has.
C6_Witness ==
    /\ last.op = "rpmtsOpenDB" /\ last.rc = 0
    /\ last.arg[2] # NULL /\ last.arg[3] = last.arg[1]
    /\ last.arg[1] = O_RDWR_CREAT

\* C7: an open database handle was opened with db_mode, and rpmtsSetDBMode
\* on an open database returns non-zero and leaves db_mode as it is.
C7_ModeOfHandle ==
    /\ rdb # NULL => dbmode = rdb
    /\ last.op = "rpmtsSetDBMode" /\ last.arg[2] # NULL
         => last.rc # 0 /\ dbmode = last.arg[3] /\ rdb = last.arg[2]
    /\ last.op = "rpmtsSetDBMode" /\ last.arg[2] = NULL
         => last.rc = 0 /\ dbmode = last.arg[1]

\* C7 witness: rpmtsSetDBMode has been refused another mode on an open
\* database.
C7_Witness ==
    /\ last.op = "rpmtsSetDBMode" /\ last.rc # 0
    /\ rdb # NULL /\ last.arg[1] # dbmode

\* The change events of the last operation, in the order delivered.
RECURSIVE Events(_)
Events(tr) ==
    IF tr = <<>> THEN <<>>
    ELSE IF Head(tr).call = "change"
    THEN <<Head(tr).arg>> \o Events(Tail(tr))
    ELSE Events(Tail(tr))

\* C8: rpmtsEmpty with a change callback delivers one RPMTS_EVENT_DEL for
\* each element that was in order, in index order, and leaves no element
\* and no removed package.
C8_EmptyNotifies ==
    last.op = "rpmtsEmpty"
        => /\ change =>
                Events(trace) = [i \in 1..Len(last.arg[1]) |->
                                   <<RPMTS_EVENT_DEL, i, last.arg[1][i]>>]
           /\ ~change => Events(trace) = <<>>
           /\ Len(order) = 0
           /\ removedPackages = {}

\* C8 witness: a set of two elements has been emptied under a callback.
C8_Witness ==
    /\ last.op = "rpmtsEmpty" /\ change
    /\ Len(last.arg[1]) = 2
    /\ Len(Events(trace)) = 2

C9_Pool ==
    /\ last.op = "rpmtsEmpty" => pool = 0
    /\ last.op = "rpmtsPool"
         => /\ pool # 0 /\ last.rc = pool
            /\ last.arg # 0 => pool = last.arg
            /\ last.arg = 0 => pool = pools

C9_Step ==
    /\ pool # 0 /\ pool' # pool
         => pool' = 0 /\ (last'.op = "rpmtsEmpty" \/ ~alive')
    /\ pool = 0 /\ pool' # 0 => pool' = pools + 1 /\ last'.op = "rpmtsPool"

RECURSIVE Matching(_, _, _)
Matching(ord, types, oc) ==
    IF oc = 0 THEN <<>>
    ELSE IF types = {} \/ (ord[oc] \cap types) # {}
    THEN Append(Matching(ord, types, oc - 1), oc)
    ELSE Matching(ord, types, oc - 1)

\* C10, in every state, for an iterator whose order has not changed: the
\* elements returned so far are the elements up to the cursor that pass
\* the mask, in index order; after a null the cursor is at the end, so
\* that all of them have been returned, and no element follows a null.
C10_Yielded ==
    \A i \in 1..Len(iters) :
        iters[i].clean
            => /\ iters[i].oc <= Len(order)
               /\ iters[i].yielded
                    = Matching(order, iters[i].types, iters[i].oc)
               /\ iters[i].sawNull => iters[i].oc = Len(order)
               /\ ~iters[i].late

C10_Step ==
    last'.op = "rpmtsiNext"
        => iters'[last'.arg[1]].oc >= iters[last'.arg[1]].oc

\* C10: rpmtsiNext(T) until null returns the elements whose type meets T
\* (all of them for T = 0) once each in index order, the cursor never
\* decreases and every call after a null returns null.
C10_IteratorYields == []C10_Yielded /\ [][C10_Step]_vars

\* C10 witness: a traversal of two elements for the added ones has
\* skipped an element, returned the other and ended, and was asked again.
C10_Witness ==
    \E i \in 1..Len(iters) :
        /\ iters[i].clean /\ iters[i].sawNull
        /\ iters[i].types = TR_ADDED
        /\ order = <<TR_REMOVED, TR_ADDED>>
        /\ iters[i].yielded = <<2>>
        /\ last.op = "rpmtsiNext" /\ last.rc = 0 /\ last.arg[2] = 2

\* C11: rpmtsRebuildDB on a set with a pending element returns -1, begins
\* no transaction (the lock, the blocking of signals and the reference count
\* stay as they are) and does not call the rebuild of the database.
C11_Step ==
    last'.op = "rpmtsRebuildDB" /\ Len(order) > 0
        => /\ last'.rc = -1
           /\ trace' = <<>>
           /\ UNCHANGED ProgramVars

C11_RebuildRefusedOnMembers == [][C11_Step]_vars

\* C11 witness: rpmtsRebuildDB has been refused on a set with a member, with
\* a lock that a begin could have acquired.
C11_Witness ==
    /\ last.op = "rpmtsRebuildDB" /\ last.rc = -1
    /\ Len(order) > 0
    /\ lock.exists /\ lock.held = {}

\* The path is absolute and ends in '/'.
AbsoluteDir(p) ==
    /\ PathChars[p] # <<>>
    /\ PathChars[p][1] = "/"
    /\ PathChars[p][Len(PathChars[p])] = "/"

\* C12: rpmtsSetRootDir with a non-null path whose first character is not
\* '/' returns non-zero and changes nothing of the set; with a null path it
\* returns 0 and the root directory is the single slash.
C12_Step ==
    /\ last'.op = "rpmtsSetRootDir" /\ last'.arg # NULL
          /\ FirstChar(last'.arg) # "/"
        => last'.rc # 0 /\ UNCHANGED ProgramVars
    /\ last'.op = "rpmtsSetRootDir" /\ last'.arg = NULL
        => last'.rc = 0 /\ PathChars[rootDir'] = <<"/">>

C12_SetRootDirRejectsRelative == [][C12_Step]_vars

\* C12 witness: a relative path has been refused on a set whose root
\* directory had been set before.
C12_Witness ==
    /\ last.op = "rpmtsSetRootDir" /\ last.arg = "a/" /\ last.rc # 0
    /\ rootDir = "/a/"

C13_NullOrAbsolute ==
    alive => /\ rootDir # NULL => AbsoluteDir(rootDir)
             /\ last.op = "rpmtsCreate" => rootDir = NULL

\* C13 as amended, for every step of a live set: the root directory is set
\* by a successful rpmtsSetRootDir and by nothing else, and is not null
\* after one.
C13_Step ==
    alive'
        => /\ rootDir' # rootDir
                => last'.op = "rpmtsSetRootDir" /\ last'.rc = 0
           /\ last'.op = "rpmtsSetRootDir" /\ last'.rc = 0
                => rootDir' # NULL

RECURSIVE Decimal(_)
Decimal(ds) ==
    IF ds = <<>> THEN 0
    ELSE Decimal(SubSeq(ds, 1, Len(ds) - 1)) * 10 + ds[Len(ds)]

RECURSIVE Sum(_)
Sum(ss) == IF ss = <<>> THEN 0 ELSE Head(ss) + Sum(Tail(ss))

\* C14, in every state of a set created with SOURCE_DATE_EPOCH = E: tid is
\* E, and the last call of rpmtsGetTime has returned E plus the steps of
\* the calls before it.
C14_Seeded ==
    alive /\ epoch.set
        => /\ tid = Decimal(epoch.digits)
           /\ last.op = "rpmtsGetTime"
                => last.rc = Decimal(epoch.digits)
                               + Sum(SubSeq(timeSteps, 1, Len(timeSteps) - 1))

\* C14, for every call of rpmtsGetTime on a set created without
\* SOURCE_DATE_EPOCH: the state of the set stays as it is.
C14_Step ==
    last'.op = "rpmtsGetTime" /\ ~epoch.set => UNCHANGED ProgramVars

\* C14: with SOURCE_DATE_EPOCH = E at create, tid is E, creation consumes
\* no step and the k-th rpmtsGetTime returns E plus the sum of the steps of
\* the earlier calls; without it a call never changes the state of the set.
C14_GetTime == []C14_Seeded /\ [][C14_Step]_vars

\* C14 witness: the third call with step 3 has returned 1000000006.
C14_Witness ==
    /\ last.op = "rpmtsGetTime" /\ last.rc = 1000000006
    /\ timeSteps = <<3, 3, 3>>
    /\ tid = 1000000000

\* The keyring holds a key with the fingerprint of the packet.
InKeyring(kr, pkt) == kr # <<>> /\ \E k \in kr[1] : k.fp = pkt.fp

\* The last operation has called the keystore's `name`.
Called(tr, name) == \E k \in 1..Len(tr) : tr[k].call = name

\* C15, in every state after a successful import: the keyring holds a key
\* with the fingerprint of the packet.
C15_Imported ==
    last.op = "rpmtxnImportPubkey" /\ last.rc = "RPMRC_OK"
        => InKeyring(keyring, last.arg[2])

\* C15, for the import of a packet right after a successful import of the
\* same packet, under a handle and with a packet that passes lint, parse
\* and merge as before: it returns OK, calls no import_key and leaves the
\* keyring as it is.
C15_Step ==
    (/\ last.op = "rpmtxnImportPubkey" /\ last.rc = "RPMRC_OK"
     /\ last'.op = "rpmtxnImportPubkey" /\ last'.arg[2] = last.arg[2]
     /\ last'.arg[1] # {}
     /\ last'.arg[3].lint /\ last'.arg[3].parse /\ last'.arg[3].merge)
        => /\ last'.rc = "RPMRC_OK"
           /\ ~Called(trace', "import_key")
           /\ keyring' = keyring
           /\ stored' = stored

\* C15: after a successful import the keyring contains a key with the
\* fingerprint of the packet, and a second import of the same packet
\* returns success without a keystore write and without a change of the
\* keyring.
C15_ImportTwice == []C15_Imported /\ [][C15_Step]_vars

\* C15 witness: a packet whose key the keystore holds has been imported
\* again, with success and without a call of the keystore.
C15_Witness ==
    /\ last.op = "rpmtxnImportPubkey" /\ last.rc = "RPMRC_OK"
    /\ last.arg[2].mat = {1, 2}
    /\ ~Called(trace, "import_key")
    /\ last.arg[2] \in stored
    /\ InKeyring(keyring, last.arg[2])

\* C16: in a test transaction rpmtxnDeletePubkey under a handle returns OK
\* and does not call the keystore's delete_key, whatever the key.
C16_Step ==
    (/\ last'.op = "rpmtxnDeletePubkey" /\ last'.arg[1] # {}
     /\ (transFlags \cap RPMTRANS_FLAG_TEST) # {})
        => /\ last'.rc = "RPMRC_OK"
           /\ ~Called(trace', "delete_key")
           /\ stored' = stored

C16_TestDeleteKeepsKey == [][C16_Step]_vars

\* C16 witness: the delete of a key the keystore holds, in a test
\* transaction under a WRITE handle, has left the key where it is.
C16_Witness ==
    /\ last.op = "rpmtxnDeletePubkey" /\ last.rc = "RPMRC_OK"
    /\ last.arg[1] = RPMTXN_WRITE
    /\ (transFlags \cap RPMTRANS_FLAG_TEST) # {}
    /\ \E k \in stored : k.fp = last.arg[2].fp

\* C17: in a test transaction the import of a key under a WRITE handle
\* writes nothing to the keystore, and returns OK when the packet passes
\* lint, parse and merge.
C17_TestImportPersistsNothing ==
    (/\ last.op = "rpmtxnImportPubkey" /\ last.arg[1] = RPMTXN_WRITE
     /\ (transFlags \cap RPMTRANS_FLAG_TEST) # {})
        => /\ ~Called(trace, "import_key")
           /\ last.arg[3].lint /\ last.arg[3].parse /\ last.arg[3].merge
                => last.rc = "RPMRC_OK"

\* Every signature-verification bit is set.
NoSignatures(vs) ==
    (vs \cap RPMVSF_MASK_NOSIGNATURES) = RPMVSF_MASK_NOSIGNATURES

\* The operations that load a keyring that is null.
Loaders == {"rpmtsGetKeyring", "rpmtsInitIterator"}

\* The operations that load it with the verification forced on.
ForcedLoaders == {"rpmtxnImportPubkey", "rpmtxnDeletePubkey",
                  "rpmtsImportPubkey"}

\* C18: while every signature-verification bit is set rpmtsInitIterator and
\* rpmtsGetKeyring leave a null keyring null, select no keystore and begin
\* no transaction; a null keyring becomes a keyring only by a load with the
\* verification not fully disabled, or by rpmtsSetKeyring.
C18_Step ==
    /\ (last'.op \in Loaders /\ NoSignatures(vsflags) /\ keyring = <<>>)
        => /\ keyring' = <<>>
           /\ keystore' = keystore
           /\ <<txns', nrefs', lock', lockPath'>>
                = <<txns, nrefs, lock, lockPath>>
           /\ \A k \in 1..Len(trace') : trace'[k].txns = txns
           /\ ~Called(trace', "load_keys")
    /\ (keyring = <<>> /\ keyring' # <<>>)
        => \/ last'.op = "rpmtsSetKeyring"
           \/ last'.op \in Loaders /\ ~NoSignatures(vsflags)
           \/ last'.op \in ForcedLoaders

C18_NoLoadWithoutSignatures == [][C18_Step]_vars

\* C18 witness: rpmtsInitIterator has opened the database and made its
\* iterator with every signature-verification bit set, and the keyring is
\* null.
C18_Witness ==
    /\ last.op = "rpmtsInitIterator" /\ last.rc = 1
    /\ NoSignatures(vsflags)
    /\ keyring = <<>> /\ keystore = NULL /\ lockPath = NULL

\* C19, in every state: the last operation has made at most one keystore.
C19_Once ==
    Cardinality({k \in 1..Len(trace) : trace[k].call = "new keystore"}) <= 1

\* C19, for every step of a live set: the keystore is made at its first
\* use, the filesystem one for fs and the database one for every other
\* value, with a warning for every value but fs and rpmdb; once made it
\* stays the keystore of the set and no other is made.
C19_Step ==
    /\ (keystore = NULL /\ keystore' # NULL)
        => /\ keystore' = IF krtype = "fs" THEN "fs" ELSE "rpmdb"
           /\ Called(trace', "new keystore")
           /\ Called(trace', "rpmlog") <=> krtype \notin {"fs", "rpmdb"}
    /\ (keystore # NULL /\ alive')
        => /\ keystore' = keystore
           /\ ~Called(trace', "new keystore")
           /\ ~Called(trace', "rpmlog")
    /\ keystore' = keystore => ~Called(trace', "new keystore")

C19_KeystoreChosenOnce == []C19_Once /\ [][C19_Step]_vars

\* C19 witness: the keyring has been loaded again after the macro changed
\* from an unknown value to fs, with the database keystore of the first
\* use.
C19_Witness ==
    /\ last.op = "rpmtsGetKeyring" /\ last.rc = 1
    /\ Called(trace, "load_keys") /\ ~Called(trace, "new keystore")
    /\ krtype = "fs" /\ keystore = "rpmdb"

\* The positions of the character c in the string.
Places(ks, c) == {i \in 1..Len(ks) : ks[i] = c}

\* The string has one '(' and one ')' after it.
OneGroup(ks) ==
    /\ Cardinality(Places(ks, "(")) = 1
    /\ Cardinality(Places(ks, ")")) = 1
    /\ \A i \in Places(ks, "("), j \in Places(ks, ")") : i < j

\* The longest run of digits the string begins with.
DigitRun(ks) ==
    CHOOSE d \in 0..Len(ks) :
        /\ \A i \in 1..d : risdigit(ks[i])
        /\ d < Len(ks) => ~risdigit(ks[d + 1])

\* The translation of a key with one group: the text before the group,
\* '-', the text of the group without its epoch, the text after it. The
\* epoch is a run of at least `least` digits with a ':' after it.
Translated(ks, least) ==
    LET i == CHOOSE i \in Places(ks, "(") : TRUE
        j == CHOOSE j \in Places(ks, ")") : TRUE
        inner == SubSeq(ks, i + 1, j - 1)
        d == DigitRun(inner)
        rest == IF d >= least /\ d < Len(inner) /\ inner[d + 1] = ":"
                THEN SubSeq(inner, d + 2, Len(inner)) ELSE inner
    IN SubSeq(ks, 1, i - 1) \o <<"-">> \o rest
         \o SubSeq(ks, j + 1, Len(ks))

\* The key the database was asked for.
AskedFor(tr) ==
    {tr[k].arg[2] : k \in {n \in 1..Len(tr) : tr[n].call = "rpmdbInitIterator"}}

\* The statement of C20 for an epoch of at least `least` digits.
C20_Step(least) ==
    (last.op = "rpmtsInitIterator" /\ rdb # NULL)
        => LET rpmtag == last.arg[1]
               keyp == last.arg[2]
           IN /\ (rpmtag = RPMDBI_LABEL /\ ~keyp.null /\ OneGroup(keyp.str))
                   => /\ last.rc = 1
                      /\ AskedFor(trace)
                           = {StrKey(Translated(keyp.str, least))}
              /\ (rpmtag # RPMDBI_LABEL \/ keyp.null
                     \/ Places(keyp.str, "(") = {})
                   => /\ last.rc = 1
                      /\ AskedFor(trace) = {keyp}

\* C20 as stated: with the database open, rpmtsInitIterator on the label
\* index with a key of one balanced group asks the database for the key with
\* '-' for '(', without the digits after '(' when there are some and a ':'
\* follows them, without that ':', without ')', and with every other
\* character in its place; a key without '(' is passed as it is.
C20_LabelTranslated == C20_Step(1)

\* C20 amended: as above, and the ':' is removed as well when it follows
\* the '(' with no digit between them, so that (:n) is looked up as -n.
C20_LabelTranslatedAnyEpoch == C20_Step(0)

\* C20 witness: the label n(1:n) without its first character, (1:n), has
\* been looked up as -n.
C20_Witness ==
    /\ last.op = "rpmtsInitIterator" /\ last.rc = 1
    /\ last.arg = <<RPMDBI_LABEL, StrKey(<<"(", "1", ":", "n", ")">>)>>
    /\ AskedFor(trace) = {StrKey(<<"-", "n">>)}

\* The first fault of a label read from position i with `depth` groups
\* open: a '(' inside a group, a ')' outside every group, the end of the
\* label inside a group; "" when there is none.
RECURSIVE Fault(_, _, _)
Fault(ks, i, depth) ==
    IF i > Len(ks) THEN (IF depth > 0 THEN "missing ')'" ELSE "")
    ELSE IF ks[i] = "(" THEN (IF depth > 0 THEN "extra '('"
                              ELSE Fault(ks, i + 1, depth + 1))
    ELSE IF ks[i] = ")" THEN (IF depth = 0 THEN "missing '('"
                              ELSE Fault(ks, i + 1, depth - 1))
    ELSE Fault(ks, i + 1, depth)

\* The label has at most one group, balanced and not nested.
AtMostOneGroup(ks) ==
    /\ Fault(ks, 1, 0) = ""
    /\ Cardinality(Places(ks, "(")) <= 1

\* The messages logged by the last operation.
Logged(tr) ==
    {tr[k].arg : k \in {n \in 1..Len(tr) : tr[n].call = "rpmlog"}}

\* C21: with the database open, rpmtsInitIterator on the label index with
\* a label that is not of the form 'at most one balanced group, not nested'
\* returns null and asks the database for no iterator, and the first fault
\* of the label, if it is one of the three, is the message logged.
C21_MalformedLabelRefused ==
    (/\ last.op = "rpmtsInitIterator" /\ rdb # NULL
     /\ last.arg[1] = RPMDBI_LABEL /\ ~last.arg[2].null
     /\ ~AtMostOneGroup(last.arg[2].str))
        => /\ last.rc = 0
           /\ AskedFor(trace) = {}
           /\ Fault(last.arg[2].str, 1, 0) # ""
                => Logged(trace) = {Fault(last.arg[2].str, 1, 0)}

\* C21 restricted to the labels with one '(' at least, the only ones the
\* code parses: the three faults are refused with their messages.
C21_FaultsReported ==
    (/\ last.op = "rpmtsInitIterator" /\ rdb # NULL
     /\ last.arg[1] = RPMDBI_LABEL /\ ~last.arg[2].null
     /\ HasParen(last.arg[2].str)
     /\ Fault(last.arg[2].str, 1, 0) # "")
        => /\ last.rc = 0
           /\ AskedFor(trace) = {}
           /\ Logged(trace) = {Fault(last.arg[2].str, 1, 0)}

\* The variables, the name of the last operation first: a step that leaves
\* them all as they are is no operation.
opvars == <<last.op, vars>>

\* The results of the calls of `name` made by the last operation.
Results(tr, name) ==
    {tr[k].arg : k \in {n \in 1..Len(tr) : tr[n].call = name}}

\* The import has failed at lint, at the parse of the packet, at the merge
\* or at a modify of the keyring with a negative result.
FailedBeforeStore(l, tr) ==
    \/ ~l.arg[3].lint
    \/ ~l.arg[3].parse
    \/ "RPMRC_FAIL" \in Results(tr, "rpmPubkeyMerge")
    \/ \E krc \in Results(tr, "rpmKeyringModify") : krc < 0

\* C22: when rpmtxnImportPubkey under a handle fails at lint, at the parse,
\* at the merge or at a negative modify of the keyring, it returns failure,
\* has called no import_key and has left the keystore as it was; and every
\* import_key it calls comes after a modify of the keyring that returned 0.
C22_Step ==
    (last'.op = "rpmtxnImportPubkey" /\ last'.arg[1] # {})
        => /\ FailedBeforeStore(last', trace')
                => /\ last'.rc = "RPMRC_FAIL"
                   /\ ~Called(trace', "import_key")
                   /\ stored' = stored
           /\ \A k \in 1..Len(trace') :
                trace'[k].call = "import_key"
                    => \E j \in 1..(k - 1) :
                         /\ trace'[j].call = "rpmKeyringModify"
                         /\ trace'[j].arg = 0

C22_NoStoreOnFailure == [][C22_Step]_opvars

\* C22 witness: an import under a WRITE handle has failed at the modify of
\* the keyring, and the keystore holds nothing.
C22_Witness ==
    /\ last.op = "rpmtxnImportPubkey" /\ last.arg[1] = RPMTXN_WRITE
    /\ last.rc = "RPMRC_FAIL"
    /\ Results(trace, "rpmKeyringModify") = {-1}
    /\ stored = {}

\* C23: rpmtxnDeletePubkey under a handle returns OK, in a test
\* transaction or not and whatever delete_key reports, and with a null
\* handle it returns failure.
C23_Step ==
    last'.op = "rpmtxnDeletePubkey"
        => /\ last'.arg[1] # {} => last'.rc = "RPMRC_OK"
           /\ last'.arg[1] = {} => last'.rc = "RPMRC_FAIL"

C23_DeleteReturnsOK == [][C23_Step]_opvars

\* C23 witness: outside a test transaction the delete of a key the
\* keystore holds has called delete_key, the key is still there (delete_key
\* has failed), and the result is OK.
C23_Witness ==
    /\ last.op = "rpmtxnDeletePubkey" /\ last.rc = "RPMRC_OK"
    /\ (transFlags \cap RPMTRANS_FLAG_TEST) = {}
    /\ Called(trace, "delete_key")
    /\ \E k \in stored : k.fp = last.arg[2].fp

\* The operations on keys under a handle of the caller.
KeyOps == {"rpmtxnImportPubkey", "rpmtxnDeletePubkey"}

\* C24 as stated: rpmtxnImportPubkey and rpmtxnDeletePubkey under a handle
\* leave the verification flags as they were on every return path, and a
\* keyring that was null is loaded by each of these calls, whatever the
\* flags.
C24_AlwaysLoaded ==
    [][(last'.op \in KeyOps /\ last'.arg[1] # {})
          => /\ vsflags' = vsflags
             /\ keyring = <<>> => keyring' # <<>>]_opvars

\* C24 amended, for every call under a handle: the verification flags are
\* left as they were on every return path; a keyring that was null is
\* loaded, whatever the flags, by rpmtxnDeletePubkey and by a
\* rpmtxnImportPubkey whose packet passes lint; a rpmtxnImportPubkey whose
\* packet fails lint returns before the load and leaves the keyring null.
C24_Step ==
    (last'.op \in KeyOps /\ last'.arg[1] # {})
        => /\ vsflags' = vsflags
           /\ LET lintFailed == /\ last'.op = "rpmtxnImportPubkey"
                                /\ ~last'.arg[3].lint
              IN keyring = <<>>
                   => IF lintFailed THEN keyring' = <<>> /\ trace' = <<>>
                      ELSE /\ keyring' # <<>>
                           /\ keystore' # NULL
                           /\ Called(trace', "load_keys")

C24_FlagsRestored == [][C24_Step]_opvars

\* C24 witness: with every signature-verification bit set and no keyring,
\* rpmtxnDeletePubkey under a handle has loaded the keyring and the bits
\* are all set as before.
C24_Witness ==
    /\ last.op = "rpmtxnDeletePubkey" /\ last.arg[1] # {}
    /\ NoSignatures(vsflags)
    /\ keyring # <<>>
    /\ Called(trace, "load_keys")

\* The actions on the database and on the keystore that the operations of
\* TxnOps run under a transaction of their own.
TxnActions == {"rpmdbInit", "rpmdbRebuild", "rpmdbVerify", "load_keys",
               "import_key"}

\* The flags of the transaction an operation of TxnOps begins, and the
\* outcomes of the system calls it was run with.
BeginFlags(op) ==
    IF op \in {"rpmtsVerifyDB", "rpmtsGetKeyring"} THEN RPMTXN_READ
    ELSE RPMTXN_WRITE

EnvOf(l) ==
    IF l.op \in {"rpmtsImportPubkey", "rpmtsGetKeyring"} THEN l.arg[2]
    ELSE l.arg

\* A transaction with these flags cannot be begun in the current state.
CannotBegin(flags, env) == rpmtxnBegin(S, flags, env).ret = 0

\* rpmtsGetKeyring runs loadKeyring, and loadKeyring begins a transaction.
Loads(l) ==
    /\ l.op = "rpmtsGetKeyring" /\ l.arg[1]
    /\ keyring = <<>> /\ ~NoSignatures(vsflags)

\* C25, for the operations that return a result: the handles, ref_count and
\* the blocking of signals are at return what they were at entry, every
\* action on the database or keystore is run under a handle the operation
\* has begun, and when the transaction cannot be begun the result is a
\* failure and no action is run.
C25_Returning ==
    (last'.op \in TxnOps \ {"rpmtsGetKeyring"})
        => /\ txns' = txns /\ nrefs' = nrefs /\ blocked' = blocked
           /\ \A k \in 1..Len(trace') :
                trace'[k].call \in TxnActions
                    => Len(trace'[k].txns) > Len(txns)
           /\ CannotBegin(BeginFlags(last'.op), EnvOf(last'))
                => /\ IF last'.op = "rpmtsImportPubkey"
                      THEN last'.rc = "RPMRC_FAIL" ELSE last'.rc = -1
                   /\ \A k \in 1..Len(trace') :
                        trace'[k].call \notin TxnActions

\* C25, for loadKeyring as rpmtsGetKeyring runs it: the same balance, and
\* no load_keys when the transaction cannot be begun.
C25_Loading ==
    last'.op = "rpmtsGetKeyring"
        => /\ txns' = txns /\ nrefs' = nrefs /\ blocked' = blocked
           /\ \A k \in 1..Len(trace') :
                trace'[k].call \in TxnActions
                    => Len(trace'[k].txns) > Len(txns)
           /\ CannotBegin(RPMTXN_READ, EnvOf(last'))
                => ~Called(trace', "load_keys")

\* C25 as stated: rpmtsInitDB, rpmtsRebuildDB, rpmtsVerifyDB,
\* rpmtsImportPubkey and loadKeyring end the transactions they begin, so
\* that handles, ref_count and the blocking of signals are at return what
\* they were at entry; and when the transaction cannot be begun each of
\* them fails without its action, loadKeyring giving no keyring.
C25_AllFail ==
    [][/\ C25_Returning
       /\ C25_Loading
       /\ (Loads(last') /\ CannotBegin(RPMTXN_READ, EnvOf(last')))
            => keyring' = <<>> /\ last'.rc = 0]_opvars

\* C25 amended: as above for the four operations that return a result;
\* loadKeyring returns nothing, and when its transaction cannot be begun it
\* leaves a new, empty keyring that rpmtsGetKeyring returns, without a call
\* of load_keys.
C25_TxnBalanced ==
    [][/\ C25_Returning
       /\ C25_Loading
       /\ (Loads(last') /\ CannotBegin(RPMTXN_READ, EnvOf(last')))
            => keyring' = <<{}>> /\ last'.rc = 1]_opvars

\* C25 witness: under a handle of the caller rpmtsVerifyDB has run a
\* verification that failed, and the caller's handle is the only one live.
C25_Witness ==
    /\ last.op = "rpmtsVerifyDB" /\ last.rc = 1
    /\ Called(trace, "rpmdbVerify")
    /\ Len(txns) = 1 /\ nrefs = 2

\* C26: the rpmtsFree that releases the last reference delivers no change
\* event, whatever the elements in order and with a change callback
\* installed or not, and leaves the set without callback and without
\* elements.
C26_Step ==
    (last'.op = "rpmtsFree" /\ alive /\ ~alive')
        => /\ Events(trace') = <<>>
           /\ ~change'
           /\ order' = <<>>

C26_NoEventOnDestruction == [][C26_Step]_opvars

\* C26 witness: a set with a change callback and two elements in order has
\* been destroyed; its elements have been cleaned, one by one.
C26_Witness ==
    /\ last.op = "rpmtsFree" /\ ~alive
    /\ Len(last.arg[1]) = 2 /\ last.arg[2]
    /\ Results(trace, "rpmteCleanDS") = {1, 2}

\* C27, in every state after a rpmtsOpenDB that failed: the result is not
\* zero, no handle is open and the set is live.
C27_Failed ==
    (last.op = "rpmtsOpenDB" /\ last.rc # 0) => rdb = NULL /\ alive

\* C27, for a rpmtsOpenDB right after one of the same mode that failed: the
\* open of the database is attempted again, and when it succeeds the
\* handle is open in that mode.
C27_Step ==
    (/\ last.op = "rpmtsOpenDB" /\ last.rc # 0
     /\ last'.op = "rpmtsOpenDB" /\ last'.arg[1] = last.arg[1])
        => /\ Results(trace', "rpmdbOpen") = {last.arg[1]}
           /\ last'.rc = 0 => rdb' = last.arg[1]
           /\ last'.rc # 0 => rdb' = NULL

\* C27: a rpmtsOpenDB that fails returns non-zero and leaves no handle
\* open, and the next rpmtsOpenDB of the same mode opens the database
\* again.
C27_OpenRetried == []C27_Failed /\ [][C27_Step]_opvars

\* C27 witness: a set with an open handle has been asked for the other
\* mode, the open has failed, and the set has no handle.
C27_Witness ==
    /\ last.op = "rpmtsOpenDB" /\ last.rc # 0
    /\ last.arg[2] # NULL /\ last.arg[1] # last.arg[2]
    /\ rdb = NULL /\ alive

\* C28, for every step that leaves the set live: a lock path and a lock
\* object that exist stay as they are; the lock path is made by rpmtxnBegin
\* alone, from the root directory of that moment, and the lock object by
\* rpmtxnBegin alone; rpmtsSetRootDir changes neither.
C28_Step ==
    alive'
        => /\ lockPath # NULL => lockPath' = lockPath
           /\ lock.exists
                => lock'.exists /\ lock'.openmode = lock.openmode
           /\ lockPath' # lockPath
                => /\ last'.op = "rpmtxnBegin"
                   /\ lockPath' = IF rootDir = NULL THEN "/" ELSE rootDir
           /\ lock'.exists # lock.exists => last'.op = "rpmtxnBegin"
           /\ last'.op = "rpmtsSetRootDir"
                => lockPath' = lockPath /\ lock' = lock

\* C28 as stated: the lock object and the lock path are made once, both at
\* the first rpmtxnBegin of the set, and stay the same for every later
\* transaction; rpmtsSetRootDir does not change the lock path.
C28_MadeAtFirstBegin ==
    [][/\ C28_Step
       /\ (alive' /\ lock'.exists /\ ~lock.exists) => lockPath = NULL]_opvars

\* C28 amended: the lock path is made at the first rpmtxnBegin; the lock
\* object is made at the first rpmtxnBegin at which rpmlockNew succeeds,
\* which is a later one when rpmlockNew has failed before; once made, each
\* stays the same until the set is destroyed, whatever rpmtsSetRootDir
\* does.
C28_LockMadeOnce ==
    [][/\ C28_Step
       /\ (alive' /\ lock'.exists /\ ~lock.exists) => lockPath' # NULL]_opvars

\* C28 witness: a transaction has been begun after rpmtsSetRootDir gave the
\* set another root than the one its lock path was made from.
C28_Witness ==
    /\ last.op = "rpmtxnBegin" /\ last.rc = 2
    /\ lock.exists /\ lockPath = "/" /\ rootDir = "/a/"

\* C29: the destruction body of rpmtsFree has run once for a set that is
\* destroyed and never for a live one, and it ends with the one reference
\* it took for itself at its begin: the iterators of rpmtsClean and
\* rpmtsCleanProblems have given back what they took and no more, so that
\* no rpmtsFree inside the destruction found the last reference.
C29_DestroyedOnce ==
    /\ destroyed <= 1
    /\ alive <=> destroyed = 0
    /\ ~alive => nrefs = 1

\* C29 witness: the free of an iterator has destroyed a set with elements
\* in order, which the iterators of the destruction have visited.
C29_Witness ==
    /\ last.op = "rpmtsiFree" /\ ~alive /\ destroyed = 1
    /\ Called(trace, "rpmteCleanDS")
    /\ Called(trace, "rpmteCleanProblems")

\* C30: every import_key and every delete_key is called on a keystore that
\* has been selected, whatever the operations before, rpmtsSetKeyring
\* before any load of the keyring included.
C30_KeystoreSelected ==
    \A k \in 1..Len(trace) :
        /\ trace[k].call # "SIGSEGV"
        /\ trace[k].call \in {"import_key", "delete_key"}
               => trace[k].arg[1] # NULL

\* the file hook was called for a regular file that is no ghost, with an
\* operation other than FA_TOUCH
InstallsContents(l) ==
    /\ l.op = "reflink_fsm_file_install"
    /\ l.arg[1].mode = "S_IFREG" /\ ~l.arg[1].ghost
    /\ l.arg[2] # "FA_TOUCH"

\* C31, at every call of fsm_file_install of the reflink plugin: when the
\* archive reader hook answers RPMRC_PLUGIN_CONTENTS for the package (it was
\* detected as transcoded) and the file is regular, no ghost, and the
\* operation is not FA_TOUCH, the hook returns RPMRC_PLUGIN_CONTENTS or
\* RPMRC_FAIL, never RPMRC_OK, a digest table of no keys or of keys of no
\* bytes included.
C31_Step ==
    (/\ InstallsContents(last')
     /\ reflink_fsm_file_archive_reader(reflink, reflink.files).ret
            = RPMRC_PLUGIN_CONTENTS)
        => last'.rc \in {RPMRC_PLUGIN_CONTENTS, RPMRC_FAIL}

C31_TranscodedNeverDefaultInstall == [][C31_Step]_opvars

\* what holds: with a digest table that is not empty the hook returns
\* RPMRC_PLUGIN_CONTENTS or RPMRC_FAIL for such a file
C31_TableStep ==
    (InstallsContents(last') /\ reflink.table # {})
        => last'.rc \in {RPMRC_PLUGIN_CONTENTS, RPMRC_FAIL}

C31_ContentsWithTable == [][C31_TableStep]_opvars

\* The number a string of the characters of a decimal number stands for.
DigitOf(c) ==
    CASE c = "0" -> 0 [] c = "1" -> 1 [] c = "2" -> 2 [] c = "3" -> 3
      [] c = "4" -> 4 [] c = "5" -> 5 [] c = "6" -> 6 [] c = "7" -> 7
      [] c = "8" -> 8 [] c = "9" -> 9

RECURSIVE Atoi(_)
Atoi(cs) ==
    IF cs = <<>> THEN 0
    ELSE IF Head(cs) = "-" THEN 0 - Atoi(Tail(cs))
    ELSE Atoi(SubSeq(cs, 1, Len(cs) - 1)) * 10 + DigitOf(cs[Len(cs)])

\* the values pushed by the last hook for the macro of the name
Pushed(tr, name) ==
    {tr[k].arg[2] : k \in {k \in 1..Len(tr) : /\ tr[k].call = "rpmPushMacro"
                                              /\ tr[k].arg[1] = name}}

\* C32, in every state of the measure plugin: psm_count is the number of
\* the calls of psm_post that have returned RPMRC_OK, a call that failed
\* having left it as it was; what tsm_post pushes as
\* _measure_plugin_psm_count is the decimal form of that number, and a
\* tsm_post that returns RPMRC_OK has pushed it.
C32_PsmCountPublished ==
    /\ measure.psm_count = measure.posts
    /\ last.op = "measure_tsm_post"
         => /\ \A v \in Pushed(trace, <<"_measure_plugin_psm_count">>) :
                 Atoi(v) = measure.posts
            /\ last.rc = RPMRC_OK
                 => Pushed(trace, <<"_measure_plugin_psm_count">>) # {}

\* C32 witness: tsm_post has published the count after a psm_post that
\* succeeded, and the count is not zero.
C32_Witness ==
    /\ last.op = "measure_tsm_post" /\ last.rc = RPMRC_OK
    /\ measure.posts > 0
    /\ Pushed(trace, <<"_measure_plugin_psm_count">>) = {Fmt(measure.posts)}

====
